---- MODULE Spec2Model ----
(***************************************************************************)
(* Model of the AI-assisted candidate ranking and response engine of       *)
(* src/app.py: the lazily initialised Gemini handle (get_gemini_model),    *)
(* the ranking and chat requests that acquire it, and the skill matcher    *)
(* and quota ranker (calculate_skill_match_score,                          *)
(* sort_recommendations_by_match).                                         *)
(***************************************************************************)
EXTENDS Integers, Sequences, FiniteSets, TLC

VARIABLES
    keyPresent,          \* os.getenv("GEMINI_API_KEY") is non-empty (fixed per process)
    gemini_model,        \* _gemini_model
    gemini_model_error,  \* _gemini_model_error
    gemini_lock,         \* holder of _gemini_lock, or NoThread
    pc,                  \* per thread: the line of src/app.py it is about to execute
    kind,                \* per thread: the request it runs ("rank" or "chat")
    model_instance,      \* per thread: the local model_instance of its request
    started,             \* number of requests started so far
    built,               \* per thread: executions of the construction block (lines 99-112)
    underConstruction,   \* clients whose constructor call has begun and not yet returned
    completed,           \* clients whose constructor call has returned
    returned,            \* every value a get_gemini_model call has returned so far
    retLines,            \* per thread: the return statement its last call left through
    aiCalls,             \* number of generate_content calls issued so far
    outcome,             \* per thread: how its last request was answered
    user,                \* the profile record a ranking is computed for
    pool,                \* the candidate records handed to sort_recommendations_by_match
    ranked,              \* the list the last ranking returned
    prevRanked,          \* the list the ranking before the last one returned
    rankCalls,           \* rankings of the pool so far: 0, 1, or 2 for two or more
    session,             \* the client's Flask session as its cookie stores it
    response,            \* the response to the client's last HTTP request
    last,                \* what the handler of the last HTTP request was given and did
    conversation,        \* the turns of the client's chat that the AI answered, in order
    scoreCall,           \* the arguments of the last call of calculate_skill_match_score
    scoreResult,         \* what that call returned, in tenths
    reranked,            \* the last ranking ranked the list the ranking before it returned
    contextHistory,      \* the argument of the last call of build_conversation_context
    context,             \* what that call returned
    fallbackCall,        \* the arguments of the last call of get_fallback_response
    fallbackReply,       \* what that call returned
    fallbackPrevious     \* what the call before it returned

handleVars == <<keyPresent, gemini_model, gemini_model_error, gemini_lock, pc, kind,
                model_instance, started, built, underConstruction, completed,
                returned, retLines, aiCalls, outcome>>
rankVars == <<user, pool, ranked, prevRanked, rankCalls, reranked>>
requestVars == <<session, response, last, conversation>>
scoreVars == <<scoreCall, scoreResult>>
responderVars == <<contextHistory, context, fallbackCall, fallbackReply, fallbackPrevious>>
vars == <<keyPresent, gemini_model, gemini_model_error, gemini_lock, pc, kind,
          model_instance, started, built, underConstruction, completed,
          returned, retLines, aiCalls, outcome,
          user, pool, ranked, prevRanked, rankCalls, reranked,
          session, response, last, conversation,
          scoreCall, scoreResult,
          contextHistory, context, fallbackCall, fallbackReply, fallbackPrevious>>

----------------------------------------------------------------------------
(* Bounds of the model *)

NThreads == 2
MaxRequests == 3

Threads == 1..NThreads

(* _gemini_lock = Lock(): held by no thread *)
NoThread == 0

(* A client object: which model it wraps and the thread whose call built it
   (two constructor calls give two distinct objects). *)
Client(name, t) == [model |-> name, by |-> t]

(* Python's None as the value of _gemini_model / model_instance *)
None == [model |-> "None", by |-> NoThread]

(* Python's None as the value of _gemini_model_error *)
NoError == "None"

(* Variant of Resolved: the check looks at _gemini_model alone, so a recorded
   failure does not stop a later call from initialising again. *)
ResolvedModelOnly == gemini_model # None

(* `if _gemini_model or _gemini_model_error` (lines 85 and 96).  Both variables
   only ever go from None to a truthy value (line 110 stores None over None), so
   the two reads of the condition are modelled as one. *)
Resolved == gemini_model # None \/ gemini_model_error # NoError

----------------------------------------------------------------------------
(* get_gemini_model, lines 81-114, one action per statement.  A request enters
   it at line 85 and leaves it with model_instance set, at "L1283" (ranking) or
   "L603" (chat). *)

AfterReturn(t) == IF kind[t] = "rank" THEN "L1283" ELSE "L603"

Return(t, value, line) ==
    /\ model_instance' = [model_instance EXCEPT ![t] = value]
    /\ returned' = returned \cup {value}
    /\ retLines' = [retLines EXCEPT ![t] = line]
    /\ pc' = [pc EXCEPT ![t] = AfterReturn(t)]

(* Variant of L85: no check before the lock. *)
L85_NoOuterCheck(t) ==
    /\ pc[t] = "L85"
    /\ pc' = [pc EXCEPT ![t] = "L88"]
    /\ UNCHANGED <<keyPresent, gemini_model, gemini_model_error, gemini_lock, kind,
                   model_instance, started, built, underConstruction, completed,
                   returned, retLines, aiCalls, outcome, rankVars, requestVars,
                   scoreVars, responderVars>>

(* line 85: the outer, unsynchronised check *)
L85(t) ==
    /\ pc[t] = "L85"
    /\ pc' = [pc EXCEPT ![t] = IF Resolved THEN "L86" ELSE "L88"]
    /\ UNCHANGED <<keyPresent, gemini_model, gemini_model_error, gemini_lock, kind,
                   model_instance, started, built, underConstruction, completed,
                   returned, retLines, aiCalls, outcome, rankVars, requestVars,
                   scoreVars, responderVars>>

(* line 86: return _gemini_model *)
L86(t) ==
    /\ pc[t] = "L86"
    /\ Return(t, gemini_model, "L86")
    /\ UNCHANGED <<keyPresent, gemini_model, gemini_model_error, gemini_lock, kind,
                   started, built, underConstruction, completed, aiCalls, outcome,
                   rankVars, requestVars,
                   scoreVars, responderVars>>

(* lines 88-89: gemini_key = os.getenv(...); if not gemini_key *)
L88(t) ==
    /\ pc[t] = "L88"
    /\ pc' = [pc EXCEPT ![t] = IF keyPresent THEN "L94" ELSE "L90"]
    /\ UNCHANGED <<keyPresent, gemini_model, gemini_model_error, gemini_lock, kind,
                   model_instance, started, built, underConstruction, completed,
                   returned, retLines, aiCalls, outcome, rankVars, requestVars,
                   scoreVars, responderVars>>

(* line 90: _gemini_model_error = "Missing GEMINI_API_KEY" *)
L90(t) ==
    /\ pc[t] = "L90"
    /\ gemini_model_error' = "Missing GEMINI_API_KEY"
    /\ pc' = [pc EXCEPT ![t] = "L92"]
    /\ UNCHANGED <<keyPresent, gemini_model, gemini_lock, kind,
                   model_instance, started, built, underConstruction, completed,
                   returned, retLines, aiCalls, outcome, rankVars, requestVars,
                   scoreVars, responderVars>>

(* line 92: return None *)
L92(t) ==
    /\ pc[t] = "L92"
    /\ Return(t, None, "L92")
    /\ UNCHANGED <<keyPresent, gemini_model, gemini_model_error, gemini_lock, kind,
                   started, built, underConstruction, completed, aiCalls, outcome,
                   rankVars, requestVars,
                   scoreVars, responderVars>>

(* Variant of L94: the block is entered without waiting for the lock. *)
L94_NoLock(t) ==
    /\ pc[t] = "L94"
    /\ gemini_lock' = t
    /\ pc' = [pc EXCEPT ![t] = "L96"]
    /\ UNCHANGED <<keyPresent, gemini_model, gemini_model_error, kind,
                   model_instance, started, built, underConstruction, completed,
                   returned, retLines, aiCalls, outcome, rankVars, requestVars,
                   scoreVars, responderVars>>

(* line 94: with _gemini_lock: blocks until the lock is free *)
L94(t) ==
    /\ pc[t] = "L94"
    /\ gemini_lock = NoThread
    /\ gemini_lock' = t
    /\ pc' = [pc EXCEPT ![t] = "L96"]
    /\ UNCHANGED <<keyPresent, gemini_model, gemini_model_error, kind,
                   model_instance, started, built, underConstruction, completed,
                   returned, retLines, aiCalls, outcome, rankVars, requestVars,
                   scoreVars, responderVars>>

(* Variant of L96: no second check inside the lock. *)
L96_NoDoubleCheck(t) ==
    /\ pc[t] = "L96"
    /\ pc' = [pc EXCEPT ![t] = "L100"]
    /\ UNCHANGED <<keyPresent, gemini_model, gemini_model_error, gemini_lock, kind,
                   model_instance, started, built, underConstruction, completed,
                   returned, retLines, aiCalls, outcome, rankVars, requestVars,
                   scoreVars, responderVars>>

(* line 96: the check repeated inside the lock *)
L96(t) ==
    /\ pc[t] = "L96"
    /\ pc' = [pc EXCEPT ![t] = IF Resolved THEN "L97" ELSE "L100"]
    /\ UNCHANGED <<keyPresent, gemini_model, gemini_model_error, gemini_lock, kind,
                   model_instance, started, built, underConstruction, completed,
                   returned, retLines, aiCalls, outcome, rankVars, requestVars,
                   scoreVars, responderVars>>

(* line 97: return _gemini_model from inside the with block, which releases
   the lock *)
L97(t) ==
    /\ pc[t] = "L97"
    /\ Return(t, gemini_model, "L97")
    /\ gemini_lock' = NoThread
    /\ UNCHANGED <<keyPresent, gemini_model, gemini_model_error, kind,
                   started, built, underConstruction, completed, aiCalls, outcome,
                   rankVars, requestVars,
                   scoreVars, responderVars>>

(* Variant of L100: the handler of line 103 records the failure of the primary
   construction in _gemini_model_error. *)
L100_RecordError(t) ==
    /\ pc[t] = "L100"
    /\ built' = [built EXCEPT ![t] = @ + 1]
    /\ \E raises \in BOOLEAN :
          /\ pc' = [pc EXCEPT ![t] = IF raises THEN "L106" ELSE "L101"]
          /\ gemini_model_error' = IF raises THEN "Gemini 1.5 Flash initialization failed"
                                   ELSE gemini_model_error
    /\ UNCHANGED <<keyPresent, gemini_model, gemini_lock, kind,
                   model_instance, started, underConstruction, completed,
                   returned, retLines, aiCalls, outcome, rankVars, requestVars,
                   scoreVars, responderVars>>

(* line 100: genai.configure(api_key=gemini_key), the first statement of the
   construction block; it may raise, which the handler of line 103 catches *)
L100(t) ==
    /\ pc[t] = "L100"
    /\ built' = [built EXCEPT ![t] = @ + 1]
    /\ \E raises \in BOOLEAN : pc' = [pc EXCEPT ![t] = IF raises THEN "L106" ELSE "L101"]
    /\ UNCHANGED <<keyPresent, gemini_model, gemini_model_error, gemini_lock, kind,
                   model_instance, started, underConstruction, completed,
                   returned, retLines, aiCalls, outcome, rankVars, requestVars,
                   scoreVars, responderVars>>

(* Variant of L101: the client is published in _gemini_model when its
   construction begins. *)
L101_PublishEarly(t) ==
    /\ pc[t] = "L101"
    /\ underConstruction' = underConstruction \cup {Client("gemini-1.5-flash", t)}
    /\ gemini_model' = Client("gemini-1.5-flash", t)
    /\ pc' = [pc EXCEPT ![t] = "L101r"]
    /\ UNCHANGED <<keyPresent, gemini_model_error, gemini_lock, kind,
                   model_instance, started, built, completed,
                   returned, retLines, aiCalls, outcome, rankVars, requestVars,
                   scoreVars, responderVars>>

(* line 101, right-hand side: the call genai.GenerativeModel('gemini-1.5-flash')
   begins *)
L101(t) ==
    /\ pc[t] = "L101"
    /\ underConstruction' = underConstruction \cup {Client("gemini-1.5-flash", t)}
    /\ pc' = [pc EXCEPT ![t] = "L101r"]
    /\ UNCHANGED <<keyPresent, gemini_model, gemini_model_error, gemini_lock, kind,
                   model_instance, started, built, completed,
                   returned, retLines, aiCalls, outcome, rankVars, requestVars,
                   scoreVars, responderVars>>

(* line 101: the constructor raises (caught at line 103), or it returns the
   client and the assignment stores it in _gemini_model *)
L101r(t) ==
    /\ pc[t] = "L101r"
    /\ underConstruction' = underConstruction \ {Client("gemini-1.5-flash", t)}
    /\ \/ /\ pc' = [pc EXCEPT ![t] = "L106"]
          /\ UNCHANGED <<gemini_model, completed>>
       \/ /\ completed' = completed \cup {Client("gemini-1.5-flash", t)}
          /\ gemini_model' = Client("gemini-1.5-flash", t)
          /\ pc' = [pc EXCEPT ![t] = "L113"]
    /\ UNCHANGED <<keyPresent, gemini_model_error, gemini_lock, kind,
                   model_instance, started, built,
                   returned, retLines, aiCalls, outcome, rankVars, requestVars,
                   scoreVars, responderVars>>

(* line 106, right-hand side: the call genai.GenerativeModel('gemini-pro')
   begins *)
L106(t) ==
    /\ pc[t] = "L106"
    /\ underConstruction' = underConstruction \cup {Client("gemini-pro", t)}
    /\ pc' = [pc EXCEPT ![t] = "L106r"]
    /\ UNCHANGED <<keyPresent, gemini_model, gemini_model_error, gemini_lock, kind,
                   model_instance, started, built, completed,
                   returned, retLines, aiCalls, outcome, rankVars, requestVars,
                   scoreVars, responderVars>>

(* line 106: the constructor raises (caught at line 108), or it returns the
   client and the assignment stores it in _gemini_model *)
L106r(t) ==
    /\ pc[t] = "L106r"
    /\ underConstruction' = underConstruction \ {Client("gemini-pro", t)}
    /\ \/ /\ pc' = [pc EXCEPT ![t] = "L109"]
          /\ UNCHANGED <<gemini_model, completed>>
       \/ /\ completed' = completed \cup {Client("gemini-pro", t)}
          /\ gemini_model' = Client("gemini-pro", t)
          /\ pc' = [pc EXCEPT ![t] = "L113"]
    /\ UNCHANGED <<keyPresent, gemini_model_error, gemini_lock, kind,
                   model_instance, started, built,
                   returned, retLines, aiCalls, outcome, rankVars, requestVars,
                   scoreVars, responderVars>>

(* line 109: _gemini_model_error = f"Gemini init failed: {fallback_error}" *)
L109(t) ==
    /\ pc[t] = "L109"
    /\ gemini_model_error' = "Gemini init failed"
    /\ pc' = [pc EXCEPT ![t] = "L110"]
    /\ UNCHANGED <<keyPresent, gemini_model, gemini_lock, kind,
                   model_instance, started, built, underConstruction, completed,
                   returned, retLines, aiCalls, outcome, rankVars, requestVars,
                   scoreVars, responderVars>>

(* line 110: _gemini_model = None *)
L110(t) ==
    /\ pc[t] = "L110"
    /\ gemini_model' = None
    /\ pc' = [pc EXCEPT ![t] = "L113"]
    /\ UNCHANGED <<keyPresent, gemini_model_error, gemini_lock, kind,
                   model_instance, started, built, underConstruction, completed,
                   returned, retLines, aiCalls, outcome, rankVars, requestVars,
                   scoreVars, responderVars>>

(* Variant of L113: the block is left with the lock still held. *)
L113_KeepLock(t) ==
    /\ pc[t] = "L113"
    /\ pc' = [pc EXCEPT ![t] = "L114"]
    /\ UNCHANGED <<keyPresent, gemini_model, gemini_model_error, gemini_lock, kind,
                   model_instance, started, built, underConstruction, completed,
                   returned, retLines, aiCalls, outcome, rankVars, requestVars,
                   scoreVars, responderVars>>

(* end of the with block (after line 112): the lock is released *)
L113(t) ==
    /\ pc[t] = "L113"
    /\ gemini_lock' = NoThread
    /\ pc' = [pc EXCEPT ![t] = "L114"]
    /\ UNCHANGED <<keyPresent, gemini_model, gemini_model_error, kind,
                   model_instance, started, built, underConstruction, completed,
                   returned, retLines, aiCalls, outcome, rankVars, requestVars,
                   scoreVars, responderVars>>

(* line 114: return _gemini_model *)
L114(t) ==
    /\ pc[t] = "L114"
    /\ Return(t, gemini_model, "L114")
    /\ UNCHANGED <<keyPresent, gemini_model, gemini_model_error, gemini_lock, kind,
                   started, built, underConstruction, completed, aiCalls, outcome,
                   rankVars, requestVars,
                   scoreVars, responderVars>>

----------------------------------------------------------------------------
(* The two requests that acquire the handle: generate_recommendations_fast
   (lines 1279-1342) and get_gemini_response (lines 599-702). *)

(* A worker thread takes up a ranking or a chat request: line 1282
   (model_instance = get_gemini_model()) or line 602 *)
StartRequest(t, k) ==
    /\ pc[t] = "idle"
    /\ started < MaxRequests
    /\ started' = started + 1
    /\ kind' = [kind EXCEPT ![t] = k]
    /\ model_instance' = [model_instance EXCEPT ![t] = None]
    /\ retLines' = [retLines EXCEPT ![t] = "none"]
    /\ outcome' = [outcome EXCEPT ![t] = "pending"]
    /\ pc' = [pc EXCEPT ![t] = "L85"]
    /\ UNCHANGED <<keyPresent, gemini_model, gemini_model_error, gemini_lock,
                   built, underConstruction, completed, returned, aiCalls, rankVars, requestVars,
                   scoreVars, responderVars>>

Answer(t, how) ==
    /\ outcome' = [outcome EXCEPT ![t] = how]
    /\ pc' = [pc EXCEPT ![t] = "idle"]

(* line 1283: if not model_instance *)
L1283(t) ==
    /\ pc[t] = "L1283"
    /\ pc' = [pc EXCEPT ![t] = IF model_instance[t] = None THEN "L1285" ELSE "L1307"]
    /\ UNCHANGED <<keyPresent, gemini_model, gemini_model_error, gemini_lock, kind,
                   model_instance, started, built, underConstruction, completed,
                   returned, retLines, aiCalls, outcome, rankVars, requestVars,
                   scoreVars, responderVars>>

(* line 1285: return get_enhanced_default_recommendations(user) *)
L1285(t) ==
    /\ pc[t] = "L1285"
    /\ Answer(t, "fallback")
    /\ UNCHANGED <<keyPresent, gemini_model, gemini_model_error, gemini_lock, kind,
                   model_instance, started, built, underConstruction, completed,
                   returned, retLines, aiCalls, rankVars, requestVars,
                   scoreVars, responderVars>>

(* lines 1307-1337: model_instance.generate_content(...); the call and the
   parsing of its text either reach line 1326 or raise into line 1339 *)
L1307(t) ==
    /\ pc[t] = "L1307"
    /\ aiCalls' = aiCalls + 1
    /\ \E accepted \in BOOLEAN :
         pc' = [pc EXCEPT ![t] = IF accepted THEN "L1326" ELSE "L1339"]
    /\ UNCHANGED <<keyPresent, gemini_model, gemini_model_error, gemini_lock, kind,
                   model_instance, started, built, underConstruction, completed,
                   returned, retLines, outcome, rankVars, requestVars,
                   scoreVars, responderVars>>

(* line 1326: return sort_recommendations_by_match(recommendations[:6], user) *)
L1326(t) ==
    /\ pc[t] = "L1326"
    /\ Answer(t, "ai")
    /\ UNCHANGED <<keyPresent, gemini_model, gemini_model_error, gemini_lock, kind,
                   model_instance, started, built, underConstruction, completed,
                   returned, retLines, aiCalls, rankVars, requestVars,
                   scoreVars, responderVars>>

(* Variant of L1339: the handler takes the failed call as the failure of the
   handle. *)
L1339_MarkFailed(t) ==
    /\ pc[t] = "L1339"
    /\ Answer(t, "fallback")
    /\ gemini_model' = None
    /\ gemini_model_error' = "AI call failed"
    /\ UNCHANGED <<keyPresent, gemini_lock, kind,
                   model_instance, started, built, underConstruction, completed,
                   returned, retLines, aiCalls, rankVars, requestVars,
                   scoreVars, responderVars>>

(* lines 1339-1342: except Exception: return
   get_enhanced_default_recommendations(user) *)
L1339(t) ==
    /\ pc[t] = "L1339"
    /\ Answer(t, "fallback")
    /\ UNCHANGED <<keyPresent, gemini_model, gemini_model_error, gemini_lock, kind,
                   model_instance, started, built, underConstruction, completed,
                   returned, retLines, aiCalls, rankVars, requestVars,
                   scoreVars, responderVars>>

(* line 603: if not model_instance *)
L603(t) ==
    /\ pc[t] = "L603"
    /\ pc' = [pc EXCEPT ![t] = IF model_instance[t] = None THEN "L604" ELSE "L657"]
    /\ UNCHANGED <<keyPresent, gemini_model, gemini_model_error, gemini_lock, kind,
                   model_instance, started, built, underConstruction, completed,
                   returned, retLines, aiCalls, outcome, rankVars, requestVars,
                   scoreVars, responderVars>>

(* lines 604-605: return clean_response_formatting(get_fallback_response(...)) *)
L604(t) ==
    /\ pc[t] = "L604"
    /\ Answer(t, "fallback")
    /\ UNCHANGED <<keyPresent, gemini_model, gemini_model_error, gemini_lock, kind,
                   model_instance, started, built, underConstruction, completed,
                   returned, retLines, aiCalls, rankVars, requestVars,
                   scoreVars, responderVars>>

(* lines 657-682: model_instance.generate_content(...); the call and the
   cleaning of response.text either reach line 684 or raise into line 699 *)
L657(t) ==
    /\ pc[t] = "L657"
    /\ aiCalls' = aiCalls + 1
    /\ \E answered \in BOOLEAN :
         pc' = [pc EXCEPT ![t] = IF answered THEN "L697" ELSE "L699"]
    /\ UNCHANGED <<keyPresent, gemini_model, gemini_model_error, gemini_lock, kind,
                   model_instance, started, built, underConstruction, completed,
                   returned, retLines, outcome, rankVars, requestVars,
                   scoreVars, responderVars>>

(* line 697: return cleaned_response *)
L697(t) ==
    /\ pc[t] = "L697"
    /\ Answer(t, "ai")
    /\ UNCHANGED <<keyPresent, gemini_model, gemini_model_error, gemini_lock, kind,
                   model_instance, started, built, underConstruction, completed,
                   returned, retLines, aiCalls, rankVars, requestVars,
                   scoreVars, responderVars>>

(* Variant of L699: the handler calls generate_content again. *)
L699_Retry(t) ==
    /\ pc[t] = "L699"
    /\ pc' = [pc EXCEPT ![t] = "L657"]
    /\ UNCHANGED <<keyPresent, gemini_model, gemini_model_error, gemini_lock, kind,
                   model_instance, started, built, underConstruction, completed,
                   returned, retLines, aiCalls, outcome, rankVars, requestVars,
                   scoreVars, responderVars>>

(* lines 699-702: except Exception: return the fallback response *)
L699(t) ==
    /\ pc[t] = "L699"
    /\ Answer(t, "fallback")
    /\ UNCHANGED <<keyPresent, gemini_model, gemini_model_error, gemini_lock, kind,
                   model_instance, started, built, underConstruction, completed,
                   returned, retLines, aiCalls, rankVars, requestVars,
                   scoreVars, responderVars>>

----------------------------------------------------------------------------
(* Strings.  A Python str is a sequence of one-character strings, so that
   lower(), strip(), split(','), `in` and difflib work on characters. *)

Min(a, b) == IF a <= b THEN a ELSE b

(* F applied to the value of v: v is evaluated once, however often F uses it
   (an assignment to a local variable) *)
With(v, F(_)) == CHOOSE r \in {F(x) : x \in {v}} : TRUE

UpperCase == <<"A", "B", "C", "D", "E", "F", "G", "H", "I", "J", "K", "L", "M", "N", "O", "P", "Q", "R", "S", "T", "U", "V", "W", "X", "Y", "Z">>

LowerCase == <<"a", "b", "c", "d", "e", "f", "g", "h", "i", "j", "k", "l", "m", "n", "o", "p", "q", "r", "s", "t", "u", "v", "w", "x", "y", "z">>

(* str.lower(), on one character *)
LowerChar(c) ==
    IF \E i \in DOMAIN UpperCase : UpperCase[i] = c
    THEN LowerCase[CHOOSE i \in DOMAIN UpperCase : UpperCase[i] = c]
    ELSE c

(* Variant of lower: the case is kept. *)
LowerOmitted(s) == s

(* str.lower() *)
lower(s) == [i \in DOMAIN s |-> LowerChar(s[i])]

IsSpace(c) == c \in {" ", "\t", "\n"}

(* str.strip(): leading and trailing whitespace removed *)
strip(s) ==
    With({i \in DOMAIN s : ~IsSpace(s[i])},
         LAMBDA keep :
             IF keep = {} THEN <<>>
             ELSE LET lo == CHOOSE i \in keep : \A j \in keep : i <= j
                      hi == CHOOSE i \in keep : \A j \in keep : j <= i
                  IN  SubSeq(s, lo, hi))

(* str.split(','): the pieces between commas, empty pieces included *)
RECURSIVE split(_)
split(s) ==
    IF \A i \in DOMAIN s : s[i] # ","
    THEN <<s>>
    ELSE LET c == CHOOSE i \in DOMAIN s : s[i] = "," /\ \A j \in 1..(i - 1) : s[j] # ","
         IN  <<SubSeq(s, 1, c - 1)>> \o split(SubSeq(s, c + 1, Len(s)))

(* `sub in s` for two str *)
Contains(sub, s) ==
    \E i \in 1..(Len(s) - Len(sub) + 1) : SubSeq(s, i, i + Len(sub) - 1) = sub

(* `x in xs` for a list *)
InList(x, xs) == \E i \in DOMAIN xs : xs[i] = x

----------------------------------------------------------------------------
(* difflib.SequenceMatcher(None, a, b).ratio(), as the exact fraction
   <<2*M, T>>: M the total size of the matching blocks, T = len(a) + len(b).
   No element is junk (isjunk is None, and the autojunk heuristic needs
   len(b) >= 200).  Positions are 1-based and ranges inclusive. *)

(* length of the common run of a from i and b from j inside the window *)
RECURSIVE RunLen(_, _, _, _, _, _)
RunLen(a, b, i, j, ahi, bhi) ==
    IF i <= ahi /\ j <= bhi /\ a[i] = b[j]
    THEN 1 + RunLen(a, b, i + 1, j + 1, ahi, bhi)
    ELSE 0

(* SequenceMatcher.find_longest_match: the longest block, of those the one
   starting earliest in a, of those the one starting earliest in b *)
find_longest_match(a, b, alo, ahi, blo, bhi) ==
    LET first(x, y) == \/ x[3] > y[3]
                       \/ x[3] = y[3] /\ x[1] < y[1]
                       \/ x[3] = y[3] /\ x[1] = y[1] /\ x[2] <= y[2]
    IN  With({<<i, j, RunLen(a, b, i, j, ahi, bhi)>> : i \in alo..ahi, j \in blo..bhi},
             LAMBDA blocks :
                 IF blocks = {} THEN <<alo, blo, 0>>
                 ELSE CHOOSE x \in blocks : \A y \in blocks : first(x, y))

(* SequenceMatcher.get_matching_blocks, summed: the longest block, then the
   pieces to its left and to its right *)
RECURSIVE MatchingSize(_, _, _, _, _, _)
MatchingSize(a, b, alo, ahi, blo, bhi) ==
    With(find_longest_match(a, b, alo, ahi, blo, bhi),
         LAMBDA m :
             IF m[3] = 0 THEN 0
             ELSE m[3] + MatchingSize(a, b, alo, m[1] - 1, blo, m[2] - 1)
                       + MatchingSize(a, b, m[1] + m[3], ahi, m[2] + m[3], bhi))

(* SequenceMatcher.ratio(): 2.0 * M / T, and 1.0 when T = 0 *)
ratio(a, b) ==
    With(<<a, b, Len(a), Len(b)>>,
         LAMBDA s :
             IF s[3] + s[4] = 0 THEN <<1, 1>>
             ELSE <<2 * MatchingSize(s[1], s[2], 1, s[3], 1, s[4]), s[3] + s[4]>>)

(* Fractions <<numerator, denominator>> with a positive denominator stand for
   the floats of the score computation. *)
FracGT(x, y) == With(<<x, y>>, LAMBDA p : p[1][1] * p[2][2] > p[2][1] * p[1][2])

FracMax(x, y) == With(<<x, y>>, LAMBDA p : IF FracGT(p[2], p[1]) THEN p[2] ELSE p[1])

FracAdd(x, y) ==
    With(<<x, y>>,
         LAMBDA p : <<p[1][1] * p[2][2] + p[2][1] * p[1][2], p[1][2] * p[2][2]>>)

(* round(x, 1) of the fraction x >= 0, in tenths; a tie goes to the even
   tenth, as Python rounds *)
RoundTenths(x) ==
    With(<<x, (10 * x[1]) \div x[2]>>,
         LAMBDA p :
             LET t == p[2]
                 r == 10 * p[1][1] - t * p[1][2]
             IN  IF 2 * r > p[1][2] THEN t + 1
                 ELSE IF 2 * r = p[1][2] THEN t + (t % 2)
                 ELSE t)

(* skill_variations, lines 984-993 *)
skill_variations == <<
    <<<<"p", "y", "t", "h", "o", "n">>,
      <<<<"p", "y">>,
        <<"p", "y", "t", "h", "o", "n", "3">>,
        <<"p", "y", "t", "h", "o", "n", " ", "p", "r", "o", "g", "r", "a", "m", "m", "i", "n", "g">>>>>>,
    <<<<"j", "a", "v", "a", "s", "c", "r", "i", "p", "t">>,
      <<<<"j", "s">>,
        <<"n", "o", "d", "e", ".", "j", "s">>,
        <<"n", "o", "d", "e", "j", "s">>,
        <<"r", "e", "a", "c", "t">>,
        <<"a", "n", "g", "u", "l", "a", "r">>,
        <<"v", "u", "e">>>>>>,
    <<<<"j", "a", "v", "a">>,
      <<<<"j", "a", "v", "a", " ", "p", "r", "o", "g", "r", "a", "m", "m", "i", "n", "g">>,
        <<"c", "o", "r", "e", " ", "j", "a", "v", "a">>,
        <<"a", "d", "v", "a", "n", "c", "e", "d", " ", "j", "a", "v", "a">>>>>>,
    <<<<"s", "q", "l">>,
      <<<<"m", "y", "s", "q", "l">>,
        <<"p", "o", "s", "t", "g", "r", "e", "s", "q", "l">>,
        <<"d", "a", "t", "a", "b", "a", "s", "e">>,
        <<"r", "d", "b", "m", "s">>>>>>,
    <<<<"m", "a", "c", "h", "i", "n", "e", " ", "l", "e", "a", "r", "n", "i", "n", "g">>,
      <<<<"m", "l">>,
        <<"a", "i">>,
        <<"a", "r", "t", "i", "f", "i", "c", "i", "a", "l", " ", "i", "n", "t", "e", "l", "l", "i", "g", "e", "n", "c", "e">>,
        <<"d", "e", "e", "p", " ", "l", "e", "a", "r", "n", "i", "n", "g">>>>>>,
    <<<<"d", "a", "t", "a", " ", "a", "n", "a", "l", "y", "s", "i", "s">>,
      <<<<"d", "a", "t", "a", " ", "s", "c", "i", "e", "n", "c", "e">>,
        <<"a", "n", "a", "l", "y", "t", "i", "c", "s">>,
        <<"s", "t", "a", "t", "i", "s", "t", "i", "c", "s">>>>>>,
    <<<<"w", "e", "b", " ", "d", "e", "v", "e", "l", "o", "p", "m", "e", "n", "t">>,
      <<<<"h", "t", "m", "l">>,
        <<"c", "s", "s">>,
        <<"f", "r", "o", "n", "t", "e", "n", "d">>,
        <<"b", "a", "c", "k", "e", "n", "d">>>>>>,
    <<<<"c", "o", "m", "m", "u", "n", "i", "c", "a", "t", "i", "o", "n">>,
      <<<<"e", "n", "g", "l", "i", "s", "h">>,
        <<"p", "r", "e", "s", "e", "n", "t", "a", "t", "i", "o", "n">>,
        <<"s", "p", "e", "a", "k", "i", "n", "g">>>>>>
>>

(* Variant of VariationHit: only a required skill that is the base of an entry
   is looked up. *)
VariationHitOneWay(req_skill, user_skill) ==
    \E k \in DOMAIN skill_variations :
        /\ req_skill = skill_variations[k][1]
        /\ InList(user_skill, skill_variations[k][2])

(* lines 995-998: some entry of skill_variations has one of the two skills as
   its base and the other among its variations *)
VariationHit(req_skill, user_skill) ==
    \E k \in DOMAIN skill_variations :
        LET base_skill == skill_variations[k][1]
            variations == skill_variations[k][2]
        IN  \/ req_skill = base_skill /\ InList(user_skill, variations)
            \/ user_skill = base_skill /\ InList(req_skill, variations)

(* lines 974-981: the similarity branch, and the containment branch that is
   its elif *)
FuzzyOrContained(best_match_score, user_skill, req_skill) ==
    With(ratio(user_skill, req_skill),
         LAMBDA similarity :
             IF FracGT(similarity, <<8, 10>>)
             THEN FracMax(best_match_score, similarity)
             ELSE IF Contains(req_skill, user_skill) \/ Contains(user_skill, req_skill)
             THEN FracMax(best_match_score, <<9, 10>>)
             ELSE best_match_score)

(* lines 968-998: the loop over the user skills from position i on, for one
   required skill; an exact match sets 1.0 and breaks *)
RECURSIVE BestMatch(_, _, _, _)
BestMatch(req_skill, user_skills, i, best_match_score) ==
    IF i > Len(user_skills) THEN best_match_score
    ELSE IF user_skills[i] = req_skill THEN <<1, 1>>
    ELSE With(FuzzyOrContained(best_match_score, user_skills[i], req_skill),
              LAMBDA b1 :
                  With(IF VariationHit(req_skill, user_skills[i])
                       THEN FracMax(b1, <<95, 100>>)
                       ELSE b1,
                       LAMBDA b2 : BestMatch(req_skill, user_skills, i + 1, b2)))

(* lines 962-1000: match_score, the sum of the best match of every required
   skill from position k on *)
RECURSIVE MatchSum(_, _, _)
MatchSum(required_skills, user_skills, k) ==
    IF k > Len(required_skills) THEN <<0, 1>>
    ELSE FracAdd(BestMatch(required_skills[k], user_skills, 1, <<0, 1>>),
                 MatchSum(required_skills, user_skills, k + 1))

(* Variant of Normalized: blank entries are kept, as empty skills. *)
RECURSIVE NormalizedKeepBlank(_)
NormalizedKeepBlank(xs) ==
    With(xs,
         LAMBDA list :
             IF list = <<>> THEN <<>>
             ELSE <<lower(strip(Head(list)))>> \o NormalizedKeepBlank(Tail(list)))

(* [skill.strip().lower() for skill in xs if skill.strip()] (lines 953, 955, 957) *)
RECURSIVE Normalized(_)
Normalized(xs) ==
    With(xs,
         LAMBDA list :
             IF list = <<>> THEN <<>>
             ELSE With(strip(Head(list)),
                       LAMBDA stripped :
                           IF stripped = <<>> THEN <<>> ELSE <<lower(stripped)>>)
                  \o Normalized(Tail(list)))

(* A profile's 'skills' value is a list of str or one comma-separated str
   (the isinstance test of line 952). *)
SkillList(xs) == [isList |-> TRUE, value |-> xs]

SkillString(s) == [isList |-> FALSE, value |-> s]

(* Python's None as the user / user_profile argument *)
NoUser == [none |-> TRUE]

(* Variant of BonusPoints: any prior_internship text that is not empty counts
   as experience. *)
BonusPointsTruthy(user_profile) ==
    IF user_profile = NoUser THEN 0
    ELSE
      (IF /\ user_profile.qualification # <<>>
          /\ \E edu \in {<<"e", "n", "g", "i", "n", "e", "e", "r", "i", "n", "g">>,
                          <<"b", "t", "e", "c", "h">>,
                          <<"c", "o", "m", "p", "u", "t", "e", "r">>,
                          <<"i", "t">>,
                          <<"t", "e", "c", "h", "n", "o", "l", "o", "g", "y">>} :
                 Contains(edu, lower(user_profile.qualification))
       THEN 5 ELSE 0)
      +
      (IF /\ user_profile.area_of_interest # <<>>
          /\ \E sector \in {<<"t", "e", "c", "h", "n", "o", "l", "o", "g", "y">>,
                             <<"f", "i", "n", "a", "n", "c", "e">>,
                             <<"h", "e", "a", "l", "t", "h", "c", "a", "r", "e">>,
                             <<"e", "n", "g", "i", "n", "e", "e", "r", "i", "n", "g">>,
                             <<"m", "a", "n", "a", "g", "e", "m", "e", "n", "t">>} :
                 Contains(sector, lower(user_profile.area_of_interest))
       THEN 3 ELSE 0)
      +
      (IF user_profile.prior_internship # <<>> THEN 7 ELSE 0)

(* lines 1006-1023: bonus_points *)
BonusPoints(user_profile) ==
    IF user_profile = NoUser THEN 0
    ELSE
      (IF /\ user_profile.qualification # <<>>
          /\ \E edu \in {<<"e", "n", "g", "i", "n", "e", "e", "r", "i", "n", "g">>,
                          <<"b", "t", "e", "c", "h">>,
                          <<"c", "o", "m", "p", "u", "t", "e", "r">>,
                          <<"i", "t">>,
                          <<"t", "e", "c", "h", "n", "o", "l", "o", "g", "y">>} :
                 Contains(edu, lower(user_profile.qualification))
       THEN 5 ELSE 0)
      +
      (IF /\ user_profile.area_of_interest # <<>>
          /\ \E sector \in {<<"t", "e", "c", "h", "n", "o", "l", "o", "g", "y">>,
                             <<"f", "i", "n", "a", "n", "c", "e">>,
                             <<"h", "e", "a", "l", "t", "h", "c", "a", "r", "e">>,
                             <<"e", "n", "g", "i", "n", "e", "e", "r", "i", "n", "g">>,
                             <<"m", "a", "n", "a", "g", "e", "m", "e", "n", "t">>} :
                 Contains(sector, lower(user_profile.area_of_interest))
       THEN 3 ELSE 0)
      +
      (IF user_profile.prior_internship = <<"y", "e", "s">> THEN 7 ELSE 0)

(* Variant of calculate_skill_match_score: the percentage is not capped. *)
calculate_skill_match_score_uncapped(user_skills_string, required_skills_list, user_profile) ==
    IF user_skills_string.value = <<>> \/ required_skills_list = <<>> THEN 0
    ELSE
      With(<<IF user_skills_string.isList
               THEN Normalized(user_skills_string.value)
               ELSE Normalized(split(user_skills_string.value)),
             Normalized(required_skills_list)>>,
           LAMBDA lists :
               LET user_skills == lists[1]
                   required_skills == lists[2]
               IN  IF user_skills = <<>> \/ required_skills = <<>> THEN 0
                   ELSE
                     With(MatchSum(required_skills, user_skills, 1),
                          LAMBDA match_score :
                              LET total_weight == Len(required_skills)
                                  percentage ==
                                      <<match_score[1] * 100, match_score[2] * total_weight>>
                                  bonus_points == BonusPoints(user_profile)
                              IN  With(FracAdd(percentage, <<bonus_points, 1>>),
                                       LAMBDA final_percentage :
                                           RoundTenths(final_percentage))))

(* calculate_skill_match_score, lines 943-1027.  The result, a float rounded
   to one decimal, is given in tenths: 925 stands for 92.5. *)
calculate_skill_match_score(user_skills_string, required_skills_list, user_profile) ==
    IF user_skills_string.value = <<>> \/ required_skills_list = <<>> THEN 0
    ELSE
      With(<<IF user_skills_string.isList
               THEN Normalized(user_skills_string.value)
               ELSE Normalized(split(user_skills_string.value)),
             Normalized(required_skills_list)>>,
           LAMBDA lists :
               LET user_skills == lists[1]
                   required_skills == lists[2]
               IN  IF user_skills = <<>> \/ required_skills = <<>> THEN 0
                   ELSE
                     With(MatchSum(required_skills, user_skills, 1),
                          LAMBDA match_score :
                              LET total_weight == Len(required_skills)
                                  percentage ==
                                      <<match_score[1] * 100, match_score[2] * total_weight>>
                                  bonus_points == BonusPoints(user_profile)
                              IN  With(FracAdd(percentage, <<bonus_points, 1>>),
                                       LAMBDA final_percentage :
                                           RoundTenths(
                                               IF FracGT(final_percentage, <<100, 1>>)
                                               THEN <<100, 1>>
                                               ELSE final_percentage))))

----------------------------------------------------------------------------
(* The inputs of the ranking: the profiles and the required-skill lists the
   model draws from. *)

Users == {
    [skills |-> SkillList(<<<<"p", "y">>, <<"J", "a", "v", "a">>>>),
     qualification |-> <<"B", ".", "A", ".", " ", "E", "n", "g", "l", "i", "s", "h">>, area_of_interest |-> <<>>, prior_internship |-> <<"n", "o">>],
    [skills |-> SkillString(<<"p", "y", "t", "h", "o", "n", "3", ",", " ", "s", "q", "l">>),
     qualification |-> <<"B", "T", "e", "c", "h">>, area_of_interest |-> <<"F", "i", "n", "a", "n", "c", "e">>, prior_internship |-> <<"y", "e", "s">>],
    NoUser }

PythonOnly == <<<<"P", "y", "t", "h", "o", "n">>>>

PythonAndJavaScript ==
    <<<<"p", "y", "t", "h", "o", "n">>, <<"J", "a", "v", "a", "S", "c", "r", "i", "p", "t">>>>

SqlAndJava == <<<<" ", "S", "Q", "L", " ">>, <<"j", "a", "v", "a">>>>

SkillLists == {PythonOnly, PythonAndJavaScript, SqlAndJava}

(* the 'skill_match_score' key is absent *)
NoScore == -1

Recommendation(type, skills) == [type |-> type, skills |-> skills, skill_match_score |-> NoScore]

(* all_recommendations, lines 1104-1273: the type and the skills of its 15 entries,
   in the order of the source *)
all_recommendations == <<
    Recommendation("government",
        <<<<"P", "r", "o", "g", "r", "a", "m", "m", "i", "n", "g">>,
          <<"R", "e", "s", "e", "a", "r", "c", "h">>,
          <<"D", "a", "t", "a", " ", "A", "n", "a", "l", "y", "s", "i", "s">>,
          <<"M", "A", "T", "L", "A", "B">>,
          <<"P", "y", "t", "h", "o", "n">>>>),
    Recommendation("government",
        <<<<"R", "e", "s", "e", "a", "r", "c", "h">>,
          <<"E", "n", "g", "i", "n", "e", "e", "r", "i", "n", "g">>,
          <<"T", "e", "c", "h", "n", "i", "c", "a", "l", " ", "A", "n", "a", "l", "y", "s", "i", "s">>,
          <<"P", "r", "o", "b", "l", "e", "m", " ", "S", "o", "l", "v", "i", "n", "g">>,
          <<"I", "n", "n", "o", "v", "a", "t", "i", "o", "n">>>>),
    Recommendation("government",
        <<<<"R", "e", "s", "e", "a", "r", "c", "h">>,
          <<"P", "o", "l", "i", "c", "y", " ", "A", "n", "a", "l", "y", "s", "i", "s">>,
          <<"D", "a", "t", "a", " ", "I", "n", "t", "e", "r", "p", "r", "e", "t", "a", "t", "i", "o", "n">>,
          <<"R", "e", "p", "o", "r", "t", " ", "W", "r", "i", "t", "i", "n", "g">>,
          <<"C", "o", "m", "m", "u", "n", "i", "c", "a", "t", "i", "o", "n">>>>),
    Recommendation("government",
        <<<<"O", "p", "e", "r", "a", "t", "i", "o", "n", "s", " ", "M", "a", "n", "a", "g", "e", "m", "e", "n", "t">>,
          <<"L", "o", "g", "i", "s", "t", "i", "c", "s">>,
          <<"E", "n", "g", "i", "n", "e", "e", "r", "i", "n", "g">>,
          <<"P", "r", "o", "j", "e", "c", "t", " ", "M", "a", "n", "a", "g", "e", "m", "e", "n", "t">>,
          <<"D", "a", "t", "a", " ", "A", "n", "a", "l", "y", "s", "i", "s">>>>),
    Recommendation("government",
        <<<<"R", "e", "s", "e", "a", "r", "c", "h">>,
          <<"D", "a", "t", "a", " ", "A", "n", "a", "l", "y", "s", "i", "s">>,
          <<"L", "a", "b", "o", "r", "a", "t", "o", "r", "y", " ", "S", "k", "i", "l", "l", "s">>,
          <<"S", "c", "i", "e", "n", "t", "i", "f", "i", "c", " ", "W", "r", "i", "t", "i", "n", "g">>,
          <<"I", "n", "n", "o", "v", "a", "t", "i", "o", "n">>>>),
    Recommendation("government",
        <<<<"P", "r", "o", "g", "r", "a", "m", "m", "i", "n", "g">>,
          <<"D", "i", "g", "i", "t", "a", "l", " ", "L", "i", "t", "e", "r", "a", "c", "y">>,
          <<"W", "e", "b", " ", "D", "e", "v", "e", "l", "o", "p", "m", "e", "n", "t">>,
          <<"D", "a", "t", "a", " ", "M", "a", "n", "a", "g", "e", "m", "e", "n", "t">>,
          <<"C", "y", "b", "e", "r", "s", "e", "c", "u", "r", "i", "t", "y">>>>),
    Recommendation("government",
        <<<<"E", "n", "g", "i", "n", "e", "e", "r", "i", "n", "g">>,
          <<"R", "e", "s", "e", "a", "r", "c", "h">>,
          <<"D", "a", "t", "a", " ", "A", "n", "a", "l", "y", "s", "i", "s">>,
          <<"S", "a", "f", "e", "t", "y", " ", "P", "r", "o", "t", "o", "c", "o", "l", "s">>,
          <<"T", "e", "c", "h", "n", "i", "c", "a", "l", " ", "D", "o", "c", "u", "m", "e", "n", "t", "a", "t", "i", "o", "n">>>>),
    Recommendation("private-based",
        <<<<"J", "a", "v", "a">>,
          <<"P", "y", "t", "h", "o", "n">>,
          <<"P", "r", "o", "g", "r", "a", "m", "m", "i", "n", "g">>,
          <<"P", "r", "o", "b", "l", "e", "m", " ", "S", "o", "l", "v", "i", "n", "g">>,
          <<"C", "o", "m", "m", "u", "n", "i", "c", "a", "t", "i", "o", "n">>>>),
    Recommendation("private-based",
        <<<<"D", "i", "g", "i", "t", "a", "l", " ", "T", "e", "c", "h", "n", "o", "l", "o", "g", "i", "e", "s">>,
          <<"I", "n", "n", "o", "v", "a", "t", "i", "o", "n">>,
          <<"C", "l", "o", "u", "d", " ", "C", "o", "m", "p", "u", "t", "i", "n", "g">>,
          <<"P", "r", "o", "b", "l", "e", "m", " ", "S", "o", "l", "v", "i", "n", "g">>,
          <<"T", "e", "a", "m", "w", "o", "r", "k">>>>),
    Recommendation("private-based",
        <<<<"C", "l", "o", "u", "d", " ", "C", "o", "m", "p", "u", "t", "i", "n", "g">>,
          <<"D", "e", "v", "O", "p", "s">>,
          <<"P", "r", "o", "g", "r", "a", "m", "m", "i", "n", "g">>,
          <<"A", "g", "i", "l", "e">>,
          <<"L", "e", "a", "r", "n", "i", "n", "g", " ", "A", "g", "i", "l", "i", "t", "y">>>>),
    Recommendation("private-based",
        <<<<"P", "r", "o", "g", "r", "a", "m", "m", "i", "n", "g">>,
          <<"A", "I", "/", "M", "L">>,
          <<"C", "l", "o", "u", "d", " ", "P", "l", "a", "t", "f", "o", "r", "m", "s">>,
          <<"D", "a", "t", "a", " ", "S", "c", "i", "e", "n", "c", "e">>,
          <<"I", "n", "n", "o", "v", "a", "t", "i", "o", "n">>>>),
    Recommendation("private-based",
        <<<<"P", "r", "o", "g", "r", "a", "m", "m", "i", "n", "g">>,
          <<"A", "l", "g", "o", "r", "i", "t", "h", "m", "s">>,
          <<"D", "a", "t", "a", " ", "S", "t", "r", "u", "c", "t", "u", "r", "e", "s">>,
          <<"P", "r", "o", "b", "l", "e", "m", " ", "S", "o", "l", "v", "i", "n", "g">>,
          <<"S", "o", "f", "t", "w", "a", "r", "e", " ", "D", "e", "s", "i", "g", "n">>>>),
    Recommendation("private-based",
        <<<<"P", "r", "o", "g", "r", "a", "m", "m", "i", "n", "g">>,
          <<"S", "y", "s", "t", "e", "m", " ", "D", "e", "s", "i", "g", "n">>,
          <<"A", "W", "S">>,
          <<"D", "a", "t", "a", " ", "S", "t", "r", "u", "c", "t", "u", "r", "e", "s">>,
          <<"P", "r", "o", "b", "l", "e", "m", " ", "S", "o", "l", "v", "i", "n", "g">>>>),
    Recommendation("private-based",
        <<<<"F", "i", "n", "a", "n", "c", "i", "a", "l", " ", "T", "e", "c", "h", "n", "o", "l", "o", "g", "y">>,
          <<"D", "a", "t", "a", " ", "A", "n", "a", "l", "y", "s", "i", "s">>,
          <<"B", "a", "n", "k", "i", "n", "g", " ", "O", "p", "e", "r", "a", "t", "i", "o", "n", "s">>,
          <<"C", "o", "m", "m", "u", "n", "i", "c", "a", "t", "i", "o", "n">>,
          <<"E", "x", "c", "e", "l">>>>),
    Recommendation("private-based",
        <<<<"B", "u", "s", "i", "n", "e", "s", "s", " ", "A", "n", "a", "l", "y", "s", "i", "s">>,
          <<"T", "e", "c", "h", "n", "o", "l", "o", "g", "y", " ", "C", "o", "n", "s", "u", "l", "t", "i", "n", "g">>,
          <<"C", "o", "m", "m", "u", "n", "i", "c", "a", "t", "i", "o", "n">>,
          <<"P", "r", "o", "b", "l", "e", "m", " ", "S", "o", "l", "v", "i", "n", "g">>,
          <<"P", "r", "o", "j", "e", "c", "t", " ", "M", "a", "n", "a", "g", "e", "m", "e", "n", "t">>>>) >>

(* the 'skills' lists of the catalog entries *)
CatalogSkills == {all_recommendations[i].skills : i \in DOMAIN all_recommendations}

(* calculate_skill_match_score on every profile and required-skill list of the
   model, computed once *)
ScoreTable ==
    [u \in Users |->
       [r \in SkillLists \cup CatalogSkills \cup {<<>>} |->
          calculate_skill_match_score(
              IF u = NoUser THEN SkillString(<<>>) ELSE u.skills, r, u)]]

----------------------------------------------------------------------------
(* sort_recommendations_by_match, lines 1029-1088.  A recommendation is a
   record of its 'type', its 'skills' and its 'skill_match_score'; the lists
   the function builds hold positions of the recommendations list, which stand
   for the references to its dicts. *)

(* dict.get(key, default): a dict is a record and a key it lacks is a field
   the record lacks *)
Get(rec, key, default) == IF key \in DOMAIN rec THEN rec[key] ELSE default

(* Variant of TypeOf: the type is read without regard to its case. *)
TypeOfAnyCase(rec) ==
    IF Get(rec, "type", "None") = "Government" THEN "government"
    ELSE Get(rec, "type", "None")

(* rec.get('type'), with the str "None" for Python's None *)
TypeOf(rec) == Get(rec, "type", "None")

(* Variant of MatchScore: a score already written into the recommendation is
   taken as its match_score instead of being computed again. *)
MatchScoreKept(rec, u) ==
    IF rec.skill_match_score # NoScore THEN rec.skill_match_score
    ELSE ScoreTable[u][Get(rec, "skills", <<>>)]

(* lines 1034, 1041-1045: match_score of one recommendation *)
MatchScore(rec, u) == ScoreTable[u][Get(rec, "skills", <<>>)]

(* Variant of Boost: the bonus without the cap. *)
BoostUncapped(match_score) == match_score + 100

(* line 1052: boosted_score = min(100, match_score + 10), in tenths *)
Boost(match_score) == Min(1000, match_score + 100)

(* lines 1041-1056: the score the loop writes into one recommendation *)
Scored(rec, u) ==
    LET match_score == MatchScore(rec, u)
    IN  [rec EXCEPT !.skill_match_score =
            IF TypeOf(rec) = "government" THEN Boost(match_score) ELSE match_score]

(* Variant of InsertDesc: x is put before the entries with its key, so that
   the sort reverses the order of equal keys. *)
RECURSIVE InsertDescBeforeEqual(_, _, _)
InsertDescBeforeEqual(x, sorted, key) ==
    With(sorted,
         LAMBDA list :
             IF list = <<>> THEN <<x>>
             ELSE IF key[Head(list)] > key[x]
             THEN <<Head(list)>> \o InsertDescBeforeEqual(x, Tail(list), key)
             ELSE <<x>> \o list)

(* list.sort(key=..., reverse=True): a stable sort, entries with equal keys
   keep their order.  Insert x behind every entry whose key is not smaller. *)
RECURSIVE InsertDesc(_, _, _)
InsertDesc(x, sorted, key) ==
    With(sorted,
         LAMBDA list :
             IF list = <<>> THEN <<x>>
             ELSE IF key[Head(list)] >= key[x]
             THEN <<Head(list)>> \o InsertDesc(x, Tail(list), key)
             ELSE <<x>> \o list)

RECURSIVE SortDesc(_, _)
SortDesc(s, key) ==
    With(<<s, key>>,
         LAMBDA p :
             IF p[1] = <<>> THEN <<>>
             ELSE InsertDesc(p[1][Len(p[1])],
                             SortDesc(SubSeq(p[1], 1, Len(p[1]) - 1), p[2]), p[2]))

(* lines 1050-1060: the two buckets, each sorted by score *)
Bucket(recs, government) ==
    LET positions == [i \in DOMAIN recs |-> i]
        mine(i) == (TypeOf(recs[i]) = "government") = government
        key == [i \in DOMAIN recs |-> recs[i].skill_match_score]
    IN  SortDesc(SelectSeq(positions, mine), key)

(* Variant of GovernmentQuotaOpen: the government quota is the whole list. *)
GovernmentQuotaFive(gov_count) == gov_count < 5

(* line 1068: if gov_count < 3 *)
GovernmentQuotaOpen(gov_count) == gov_count < 3

(* lines 1066-1070: the loop over government_recs from position k on *)
RECURSIVE AddGovernment(_, _, _, _)
AddGovernment(government_recs, k, top, gov_count) ==
    With(<<top, gov_count>>,
         LAMBDA p :
             IF k > Len(government_recs) THEN [top |-> p[1], gov_count |-> p[2]]
             ELSE IF GovernmentQuotaOpen(p[2])
             THEN AddGovernment(government_recs, k + 1,
                                Append(p[1], government_recs[k]), p[2] + 1)
             ELSE AddGovernment(government_recs, k + 1, p[1], p[2]))

(* Variant of PrivateQuotaOpen: the length of the list is not looked at. *)
PrivateQuotaThree(top, private_count) == private_count < 3

(* line 1075: if len(top_recommendations) < 5 and private_count < 3 *)
PrivateQuotaOpen(top, private_count) == Len(top) < 5 /\ private_count < 3

(* lines 1073-1077: the loop over private_recs from position k on *)
RECURSIVE AddPrivate(_, _, _, _)
AddPrivate(private_recs, k, top, private_count) ==
    With(<<top, private_count>>,
         LAMBDA p :
             IF k > Len(private_recs) THEN p[1]
             ELSE IF PrivateQuotaOpen(p[1], p[2])
             THEN AddPrivate(private_recs, k + 1, Append(p[1], private_recs[k]), p[2] + 1)
             ELSE AddPrivate(private_recs, k + 1, p[1], p[2]))

(* lines 1080-1083: the remaining government recommendations fill the list
   up to 5 *)
RECURSIVE AddRemaining(_, _, _)
AddRemaining(government_recs, k, top) ==
    With(top,
         LAMBDA list :
             IF k > Len(government_recs) THEN list
             ELSE IF Len(list) < 5
             THEN AddRemaining(government_recs, k + 1, Append(list, government_recs[k]))
             ELSE AddRemaining(government_recs, k + 1, list))

(* Variant of FinalSort: the list is left in the order of its assembly. *)
FinalSortOmitted(top, recs) == top

(* line 1086: top_recommendations.sort(key=skill_match_score, reverse=True) *)
FinalSort(top, recs) ==
    SortDesc(top, [i \in DOMAIN recs |-> recs[i].skill_match_score])

(* the function: recs is the recommendations list after the call (the scores
   are written into its dicts), top the positions of the returned dicts, in
   the order returned *)
sort_recommendations_by_match(recommendations, u) ==
    With([i \in DOMAIN recommendations |-> Scored(recommendations[i], u)],
         LAMBDA recs :
    With(<<Bucket(recs, TRUE), Bucket(recs, FALSE)>>,
         LAMBDA buckets :
    LET government_recs == buckets[1]
        private_recs == buckets[2]
    IN
    With(AddGovernment(government_recs, 1, <<>>, 0),
         LAMBDA gov :
    With(AddPrivate(private_recs, 1, gov.top, 0),
         LAMBDA withPrivate :
    With(IF Len(withPrivate) < 5 /\ gov.gov_count < Len(government_recs)
         THEN AddRemaining(government_recs, gov.gov_count + 1, withPrivate)
         ELSE withPrivate,
         LAMBDA filled :
    With(FinalSort(filled, recs),
         LAMBDA sorted :
             [recs |-> recs, top |-> SubSeq(sorted, 1, Min(5, Len(sorted)))]))))))

(* the returned list as its caller sees it: the dicts, each with the position
   it has in the recommendations list *)
Returned(r) ==
    [k \in DOMAIN r.top |->
       [id |-> r.top[k], type |-> TypeOf(r.recs[r.top[k]]),
        skills |-> Get(r.recs[r.top[k]], "skills", <<>>),
        skill_match_score |-> r.recs[r.top[k]].skill_match_score]]

----------------------------------------------------------------------------
(* The ranking as an operation on the program's state: the caller's list is
   ranked, its dicts keep the scores written into them, and the same list may
   be ranked again. *)

MaxPool == 6

Candidates == {
    Recommendation("government", PythonOnly),
    Recommendation("government", SqlAndJava),
    Recommendation("private-based", PythonAndJavaScript),
    Recommendation("private-based", SqlAndJava) }

Pools == UNION {[1..n -> Candidates] : n \in 0..MaxPool}

(* candidates of both types with the same required skills, which a profile
   with bonuses scores alike, and one of a lower score *)
TieCandidates == {
    Recommendation("government", PythonOnly),
    Recommendation("private-based", PythonOnly),
    Recommendation("private-based", SqlAndJava) }

TiePools == UNION {[1..n -> TieCandidates] : n \in 0..MaxPool}

(* candidates as an AI reply may hold them: of type government, without a
   type, of a type written with another case, and of a type the catalog does
   not know *)
Untyped(skills) == [skills |-> skills, skill_match_score |-> NoScore]

ListedCandidates == {
    Recommendation("government", SqlAndJava),
    Untyped(PythonOnly),
    Recommendation("Government", SqlAndJava),
    Recommendation("ngo", PythonAndJavaScript) }

(* the lists of fewer than MaxPool of them *)
ListedPools == UNION {[1..n -> ListedCandidates] : n \in 0..(MaxPool - 1)}

SortRecommendations ==
    /\ \E r \in {sort_recommendations_by_match(pool, user)} :
           /\ pool' = r.recs
           /\ ranked' = Returned(r)
    /\ prevRanked' = ranked
    /\ rankCalls' = Min(rankCalls + 1, 2)
    /\ reranked' = FALSE
    /\ UNCHANGED <<user, handleVars, requestVars, scoreVars, responderVars>>

(* lines 1865-1868: the list sort_recommendations_by_match returned (line
   1326) is handed to sort_recommendations_by_match again.  Its dicts are
   dicts of the pool, so the scores are written into the pool, and the
   entries of the result keep their positions in the pool as ids. *)
SortSortedRecommendations ==
    /\ rankCalls > 0
    /\ \E r \in {sort_recommendations_by_match(
                     [k \in DOMAIN ranked |-> pool[ranked[k].id]], user)} :
           /\ pool' = [i \in DOMAIN pool |->
                          IF \E k \in DOMAIN ranked : ranked[k].id = i
                          THEN r.recs[CHOOSE k \in DOMAIN ranked : ranked[k].id = i]
                          ELSE pool[i]]
           /\ ranked' = [k \in DOMAIN r.top |->
                            [Returned(r)[k] EXCEPT !.id = ranked[r.top[k]].id]]
    /\ prevRanked' = ranked
    /\ reranked' = TRUE
    /\ UNCHANGED <<user, rankCalls, handleVars, requestVars, scoreVars, responderVars>>

----------------------------------------------------------------------------
(* The text of an AI reply to the ranking prompt, and its parsing (lines
   1315-1326).  The text is a sequence of pieces: the characters "[", "]" and
   ",", the prose character "x", the number literal "7", and object literals,
   each written as one piece and holding no bracket. *)

MaxTextLen == 5

(* the dict json.loads builds from each object literal; like every dict the
   ranking is given it has no 'skill_match_score' yet *)
ObjectOf(piece) ==
    CASE piece = "{G}" -> Recommendation("government", PythonOnly)
      [] piece = "{P}" -> Recommendation("private-based", PythonAndJavaScript)
      [] piece = "{S}" -> [type |-> "government", skill_match_score |-> NoScore]
      [] piece = "{T}" -> [skills |-> PythonOnly, skill_match_score |-> NoScore]

ObjectPieces == {"{G}", "{P}", "{S}", "{T}"}

Pieces == {"[", "]", ",", "x", "7"} \cup ObjectPieces

Texts == UNION {[1..n -> Pieces] : n \in 0..MaxTextLen}

(* str.find(c) and str.rfind(c): the 0-based position of the first (last) c,
   or -1 *)
find(s, c) ==
    IF \A i \in DOMAIN s : s[i] # c THEN -1
    ELSE (CHOOSE i \in DOMAIN s : s[i] = c /\ \A j \in 1..(i - 1) : s[j] # c) - 1

rfind(s, c) ==
    IF \A i \in DOMAIN s : s[i] # c THEN -1
    ELSE (CHOOSE i \in DOMAIN s : s[i] = c /\ \A j \in (i + 1)..Len(s) : s[j] # c) - 1

(* s[start:end] for start and end that are not negative *)
Slice(s, start, end) == SubSeq(s, start + 1, Min(end, Len(s)))

(* JSON values *)
NoDict == [skill_match_score |-> NoScore]

JsonArray(items) == [kind |-> "array", items |-> items, dict |-> NoDict]

JsonObject(dict) == [kind |-> "object", items |-> <<>>, dict |-> dict]

JsonNumber == [kind |-> "number", items |-> <<>>, dict |-> NoDict]

(* json.loads: a value starting at piece i, with the position behind it, and
   the items of an array from piece i on; ok is FALSE where JSONDecodeError is
   raised *)
JsonError == [ok |-> FALSE, value |-> JsonNumber, next |-> 0]

RECURSIVE ParseValue(_, _)
RECURSIVE ParseItems(_, _, _)
ParseValue(s, i) ==
    IF i > Len(s) THEN JsonError
    ELSE IF s[i] \in ObjectPieces
    THEN [ok |-> TRUE, value |-> JsonObject(ObjectOf(s[i])), next |-> i + 1]
    ELSE IF s[i] = "7"
    THEN [ok |-> TRUE, value |-> JsonNumber, next |-> i + 1]
    ELSE IF s[i] = "["
    THEN IF i + 1 <= Len(s) /\ s[i + 1] = "]"
         THEN [ok |-> TRUE, value |-> JsonArray(<<>>), next |-> i + 2]
         ELSE ParseItems(s, i + 1, <<>>)
    ELSE JsonError

ParseItems(s, i, items) ==
    With(ParseValue(s, i),
         LAMBDA v :
             IF ~v.ok \/ v.next > Len(s) THEN JsonError
             ELSE IF s[v.next] = "]"
             THEN [ok |-> TRUE, value |-> JsonArray(Append(items, v.value)),
                   next |-> v.next + 1]
             ELSE IF s[v.next] = ","
             THEN ParseItems(s, v.next + 1, Append(items, v.value))
             ELSE JsonError)

json_loads(s) ==
    With(ParseValue(s, 1),
         LAMBDA v : IF v.ok /\ v.next = Len(s) + 1 THEN v ELSE JsonError)

(* what generate_content gives a ranking request: it raises, or it returns a
   response with this text *)
Raised == [raises |-> TRUE, text |-> <<>>]

Replied(text) == [raises |-> FALSE, text |-> text]

(* lines 1319-1324: the span from the first "[" to the last "]", parsed; ok is
   FALSE where line 1324 or line 1329 raises *)
ExtractedJson(recommendations_text) ==
    LET start_idx == find(recommendations_text, "[")
        end_idx == rfind(recommendations_text, "]") + 1
    IN  IF start_idx # -1 /\ end_idx # -1
        THEN json_loads(Slice(recommendations_text, start_idx, end_idx))
        ELSE JsonError

(* lines 1325-1326 and 1041-1045: len(recommendations), recommendations[:6] and
   rec.get(...) on every element raise nothing: the value is a list and its
   elements are dicts *)
Rankable(recommendations) ==
    /\ recommendations.kind = "array"
    /\ \A i \in DOMAIN recommendations.items :
          recommendations.items[i].kind = "object"

(* lines 1315-1326, up to the call of sort_recommendations_by_match: the list
   recommendations[:6] handed to it, or raised where an exception leaves the
   try block for line 1339 *)
ParsedReply(reply) ==
    IF reply.raises \/ reply.text = <<>>
    THEN [raised |-> TRUE, recommendations |-> <<>>]
    ELSE With(ExtractedJson(strip(reply.text)),
              LAMBDA v :
                  IF v.ok /\ Rankable(v.value)
                  THEN [raised |-> FALSE,
                        recommendations |->
                            [i \in 1..Min(6, Len(v.value.items)) |->
                                v.value.items[i].dict]]
                  ELSE [raised |-> TRUE, recommendations |-> <<>>])

(* what a reply is, whatever the ranking makes of it: the call raised, the
   text is empty, has no "[", has no "]", has a span from its first "[" to its
   last "]" that is no JSON text, or has one that is the JSON text of a list of
   so many elements, all of them objects with their 'skills' and 'type' or
   not *)
ReplyClass(reply) ==
    IF reply.raises THEN [is |-> "raises", elements |-> 0, candidates |-> FALSE]
    ELSE IF reply.text = <<>> THEN [is |-> "empty", elements |-> 0, candidates |-> FALSE]
    ELSE IF \A i \in DOMAIN reply.text : reply.text[i] # "["
    THEN [is |-> "no [", elements |-> 0, candidates |-> FALSE]
    ELSE IF \A i \in DOMAIN reply.text : reply.text[i] # "]"
    THEN [is |-> "no ]", elements |-> 0, candidates |-> FALSE]
    ELSE With(json_loads(Slice(reply.text, find(reply.text, "["),
                               rfind(reply.text, "]") + 1)),
              LAMBDA v :
                  IF ~v.ok THEN [is |-> "not JSON", elements |-> 0, candidates |-> FALSE]
                  ELSE [is |-> "JSON", elements |-> Len(v.value.items),
                        candidates |->
                            \A i \in DOMAIN v.value.items :
                                /\ v.value.items[i].kind = "object"
                                /\ {"skills", "type"} \subseteq
                                       DOMAIN v.value.items[i].dict])

(* every reply of the model with what lines 1315-1326 make of it, computed
   once *)
RankingReplies ==
    {[class |-> ReplyClass(reply), parsed |-> ParsedReply(reply)] :
        reply \in {Raised} \cup {Replied(text) : text \in Texts}}

----------------------------------------------------------------------------
(* The functions the request handlers call, each from entry to return, as one
   worker runs them for one client. *)

(* the thread that serves the client's requests *)
Worker == 1

(* get_gemini_model(), lines 81-114, run without interruption.  construction
   is what the construction block does if it is entered: "flash" (line 101
   returns a client), "pro" (line 100 or 101 raises and line 106 returns a
   client) or "none" (line 106 raises too). *)
get_gemini_model(construction) ==
    IF Resolved
    THEN [model |-> gemini_model, error |-> gemini_model_error, value |-> gemini_model]
    ELSE IF ~keyPresent
    THEN [model |-> gemini_model, error |-> "Missing GEMINI_API_KEY", value |-> None]
    ELSE IF construction = "flash"
    THEN [model |-> Client("gemini-1.5-flash", Worker), error |-> gemini_model_error,
          value |-> Client("gemini-1.5-flash", Worker)]
    ELSE IF construction = "pro"
    THEN [model |-> Client("gemini-pro", Worker), error |-> gemini_model_error,
          value |-> Client("gemini-pro", Worker)]
    ELSE [model |-> None, error |-> "Gemini init failed", value |-> None]

Constructions == {"flash", "pro", "none"}

(* the profiles get_user_by_id returns (lines 363-394): their 'skills' is a
   list; NoUser where it returns None *)
Profiles == {u \in Users : u = NoUser \/ u.skills.isList}

(* get_enhanced_default_recommendations(user), lines 1090-1276: the catalog,
   ranked; computed once for every profile *)
DefaultRecommendations ==
    [u \in Profiles \ {NoUser} |->
        Returned(sort_recommendations_by_match(all_recommendations, u))]

get_enhanced_default_recommendations(u) == DefaultRecommendations[u]

(* Variant of RankedReply: the list of the AI is returned as it was parsed. *)
RankedReplyAsParsed(recommendations, u) ==
    [k \in DOMAIN recommendations |->
       [id |-> k, type |-> TypeOf(recommendations[k]),
        skills |-> Get(recommendations[k], "skills", <<>>),
        skill_match_score |-> recommendations[k].skill_match_score]]

(* line 1326: return sort_recommendations_by_match(recommendations[:6], user) *)
RankedReply(recommendations, u) ==
    Returned(sort_recommendations_by_match(recommendations, u))

(* Variant of generate_recommendations_fast: an empty reply is taken as a list
   of no recommendations. *)
generate_recommendations_fast_no_except(u, handle, reply) ==
    IF handle = None
    THEN [path |-> "L1285", ai |-> FALSE, failed |-> FALSE,
          list |-> get_enhanced_default_recommendations(u)]
    ELSE IF reply.parsed.raised
    THEN [path |-> "L1326", ai |-> TRUE, failed |-> TRUE, list |-> <<>>]
    ELSE [path |-> "L1326", ai |-> TRUE, failed |-> FALSE,
          list |-> RankedReply(reply.parsed.recommendations, u)]

(* generate_recommendations_fast(user), lines 1279-1342, behind its call of
   get_gemini_model: the return statement it leaves through, whether it called
   generate_content and whether that call or the parsing of its text failed,
   and the list it returns *)
generate_recommendations_fast(u, handle, reply) ==
    IF handle = None
    THEN [path |-> "L1285", ai |-> FALSE, failed |-> FALSE,
          list |-> get_enhanced_default_recommendations(u)]
    ELSE IF reply.parsed.raised
    THEN [path |-> "L1342", ai |-> TRUE, failed |-> TRUE,
          list |-> get_enhanced_default_recommendations(u)]
    ELSE [path |-> "L1326", ai |-> TRUE, failed |-> FALSE,
          list |-> RankedReply(reply.parsed.recommendations, u)]

----------------------------------------------------------------------------
(* The session.  Flask loads it from the client's cookie before the handler
   runs and stores it again after the handler only if the handler changed it
   through the session object itself (modified) or the session is permanent;
   a change made inside a list the session holds does not set modified. *)

OpenSession(stored) == [data |-> stored, modified |-> FALSE]

(* session[key] = value *)
SetLanguage(open) ==
    [data |-> [open.data EXCEPT !.language = TRUE], modified |-> TRUE]

SetChatHistory(open, history) ==
    [data |-> [open.data EXCEPT !.has_history = TRUE, !.chat_history = history],
     modified |-> TRUE]

(* session['chat_history'].append(turn): the list changes, modified does not *)
AppendChatHistory(open, turn) ==
    [open EXCEPT !.data.chat_history = Append(@, turn)]

(* ensure_language_selection, lines 1359-1364, runs before every handler *)
ensure_language_selection(open) ==
    IF open.data.language THEN open ELSE SetLanguage(open)

(* the session the cookie holds after the request *)
SaveSession(stored, open) ==
    IF open.modified \/ open.data.permanent THEN open.data ELSE stored

(* line 694: the length a history may have *)
HistoryLimit == 5

(* Variant of LastTurns: the oldest turns are kept. *)
FirstTurns(history) == SubSeq(history, 1, HistoryLimit)

(* line 695: session['chat_history'][-5:] *)
LastTurns(history) == SubSeq(history, Len(history) - HistoryLimit + 1, Len(history))

(* lines 684-695: the turn is stored in the session *)
StoreConversation(open, turn) ==
    With(AppendChatHistory(
             IF ~open.data.has_history THEN SetChatHistory(open, <<>>) ELSE open,
             turn),
         LAMBDA appended :
             IF Len(appended.data.chat_history) > HistoryLimit
             THEN SetChatHistory(appended, LastTurns(appended.data.chat_history))
             ELSE appended)

----------------------------------------------------------------------------
(* The chat request: chat(), lines 1886-1941, with get_gemini_response, lines
   599-702. *)

(* line 1900: the length a message may have *)
MessageLimit == 500

Hi == <<"h", "i">>

Letters(n) == [i \in 1..n |-> "a"]

(* the 'message' values of the model: empty, blank, short, padded, and of
   MessageLimit and MessageLimit + 1 characters *)
Messages == {
    <<>>, <<" ", " ">>, Hi, <<" ">> \o Hi \o <<" ">>,
    Letters(MessageLimit), <<" ">> \o Letters(MessageLimit) \o <<" ">>,
    Letters(MessageLimit + 1) }

(* message.strip() for every message of the model, computed once *)
Stripped == [m \in Messages |-> strip(m)]

(* the 'message' of a JSON body: the key is absent, its value is null, or its
   value is a str *)
NoMessage == [is |-> "absent", value |-> <<>>]

NullMessage == [is |-> "null", value |-> <<>>]

Message(m) == [is |-> "str", value |-> m]

(* request.get_json(): the body is no JSON text and get_json raises, the body
   is read as None, or it is read as a dict *)
NotJson == [json |-> "invalid", message |-> NoMessage]

JsonNull == [json |-> "null", message |-> NoMessage]

JsonDict(message) == [json |-> "dict", message |-> message]

Bodies ==
    {NotJson, JsonNull, JsonDict(NoMessage), JsonDict(NullMessage)}
        \cup {JsonDict(Message(m)) : m \in Messages}

(* what generate_content gives a chat request: it raises, or it returns a
   response with this text *)
ChatReplies == {Raised, Replied(<<" ", "o", "k", " ">>)}

(* lines 668-682 on a text of one line without a literal \n *)
CleanedResponse(text) == strip(text)

(* the replies a response carries: none, the fixed text of a validation
   error, the text of the keyword responder, which is not empty, or the
   cleaned text of the AI *)
NoReply == [by |-> "none", text |-> <<>>]

FixedReply == [by |-> "chat", text |-> <<"!">>]

KeywordReply == [by |-> "get_fallback_response", text |-> <<"P", "R", "I", "A">>]

AIReply(text) == [by |-> "generate_content", text |-> text]

(* a response: jsonify(...) with its status, the recommendations of the
   ranking route, or error "unhandled" where an exception left the handler *)
Response(status, success, error, reply, fallback, recommendations) ==
    [status |-> status, success |-> success, error |-> error, reply |-> reply,
     fallback |-> fallback, recommendations |-> recommendations]

NoResponse == Response(0, FALSE, "None", NoReply, FALSE, <<>>)

Unhandled == Response(500, FALSE, "unhandled", NoReply, FALSE, <<>>)

(* what a handler was given and did: the body of a chat request, whether it called get_gemini_model and what that
   returned, whether it called generate_content and whether that call failed,
   whether it called the fallback (get_fallback_response or
   get_enhanced_default_recommendations), whether it logged the conversation,
   and for a ranking the class of the AI reply, the return statement of
   generate_recommendations_fast and the list it returned *)
Did(route, handle, client, ai, failed, fallback, logged) ==
    [route |-> route, handle |-> handle, client |-> client, ai |-> ai,
     failed |-> failed, fallback |-> fallback, logged |-> logged,
     body |-> NotJson, class |-> ReplyClass(Raised), path |-> "none", fast |-> <<>>]

Nothing == Did("none", FALSE, None, FALSE, FALSE, FALSE, FALSE)

(* Variant of get_gemini_response: the turn the keyword responder answered is
   stored in the session as well. *)
get_gemini_response_storing_fallback(user_message, open, construction, reply) ==
    With(get_gemini_model(construction),
         LAMBDA handle :
             IF handle.value = None \/ reply.raises
             THEN [reply |-> KeywordReply,
                   session |->
                       StoreConversation(
                           open, [user |-> user_message, bot |-> KeywordReply.text]),
                   handle |-> handle, ai |-> handle.value # None,
                   failed |-> handle.value # None, fallback |-> TRUE]
             ELSE [reply |-> AIReply(CleanedResponse(reply.text)),
                   session |->
                       StoreConversation(
                           open,
                           [user |-> user_message, bot |-> CleanedResponse(reply.text)]),
                   handle |-> handle, ai |-> TRUE, failed |-> FALSE,
                   fallback |-> FALSE])

(* get_gemini_response(user_message, ...), lines 599-702: the reply, the
   session, the handle, and what was called *)
get_gemini_response(user_message, open, construction, reply) ==
    With(get_gemini_model(construction),
         LAMBDA handle :
             IF handle.value = None
             THEN [reply |-> KeywordReply, session |-> open, handle |-> handle,
                   ai |-> FALSE, failed |-> FALSE, fallback |-> TRUE]
             ELSE IF reply.raises
             THEN [reply |-> KeywordReply, session |-> open, handle |-> handle,
                   ai |-> TRUE, failed |-> TRUE, fallback |-> TRUE]
             ELSE [reply |-> AIReply(CleanedResponse(reply.text)),
                   session |->
                       StoreConversation(
                           open,
                           [user |-> user_message, bot |-> CleanedResponse(reply.text)]),
                   handle |-> handle, ai |-> TRUE, failed |-> FALSE,
                   fallback |-> FALSE])

(* Variant of UserMessage: the message is taken as it was sent. *)
UserMessageAsSent(body) == body.message.value

(* line 1890: data.get('message', '').strip(), for a dict whose 'message' is
   absent or a str *)
UserMessage(body) == Stripped[body.message.value]

(* Variant of TooLong: a message of MessageLimit characters is too long. *)
TooLongFromLimit(user_message) == Len(user_message) >= MessageLimit

(* line 1900: if len(user_message) > 500 *)
TooLong(user_message) == Len(user_message) > MessageLimit

(* the result of a handler: its response, the session, the handle and what
   it did *)
Result(answer, open, handle, did) ==
    [response |-> answer, session |-> open, model |-> handle.model,
     error |-> handle.error, did |-> did]

Untouched == [model |-> gemini_model, error |-> gemini_model_error, value |-> None]

(* lines 1922-1941, the except block of chat(): data.get('message', '') raises
   if data was never bound or is None, and get_fallback_response raises on a
   message that is no str *)
ChatExcept(body, open) ==
    IF body.json = "dict" /\ body.message.is # "null"
    THEN Result(Response(200, TRUE, "None", KeywordReply, TRUE, <<>>), open, Untouched,
                Did("chat", FALSE, None, FALSE, FALSE, TRUE, FALSE))
    ELSE Result(Unhandled, open, Untouched,
                Did("chat", FALSE, None, FALSE, FALSE, body.json = "dict", FALSE))

(* chat(), lines 1886-1941 *)
chat(body, open, construction, reply) ==
    IF body.json # "dict" \/ body.message.is = "null"
    THEN ChatExcept(body, open)
    ELSE IF UserMessage(body) = <<>>
    THEN Result(Response(400, FALSE, "No message provided", FixedReply, FALSE, <<>>),
                open, Untouched, Did("chat", FALSE, None, FALSE, FALSE, FALSE, FALSE))
    ELSE IF TooLong(UserMessage(body))
    THEN Result(Response(400, FALSE, "Message too long", FixedReply, FALSE, <<>>),
                open, Untouched, Did("chat", FALSE, None, FALSE, FALSE, FALSE, FALSE))
    ELSE With(get_gemini_response(UserMessage(body), open, construction, reply),
              LAMBDA r :
                  Result(Response(200, TRUE, "None", r.reply, FALSE, <<>>),
                         r.session, r.handle,
                         Did("chat", TRUE, r.handle.value, r.ai, r.failed, r.fallback,
                             TRUE)))

----------------------------------------------------------------------------
(* The conversation context of the chat prompt: build_conversation_context,
   lines 564-597.  The text it returns is modelled by its parts: the
   first-interaction text, or the numbered lines of the turns and the set of
   the topics named after them. *)

(* line 573: chat_history[-3:] *)
ContextTurns == 3

(* line 575: conv['bot'][:150] *)
PreviewLength == 150

(* lines 578-587: the topics and their keywords, in the order of the elif
   chain *)
TopicKeywords == <<
    [topic |-> "application_process",
     words |-> <<<<"a", "p", "p", "l", "y">>,
               <<"a", "p", "p", "l", "i", "c", "a", "t", "i", "o", "n">>,
               <<"p", "r", "o", "c", "e", "s", "s">>>>],
    [topic |-> "eligibility",
     words |-> <<<<"e", "l", "i", "g", "i", "b", "l", "e">>,
               <<"e", "l", "i", "g", "i", "b", "i", "l", "i", "t", "y">>,
               <<"c", "r", "i", "t", "e", "r", "i", "a">>>>],
    [topic |-> "documents",
     words |-> <<<<"d", "o", "c", "u", "m", "e", "n", "t">>,
               <<"d", "o", "c", "u", "m", "e", "n", "t", "s">>,
               <<"p", "a", "p", "e", "r", "s">>>>],
    [topic |-> "benefits",
     words |-> <<<<"s", "t", "i", "p", "e", "n", "d">>,
               <<"b", "e", "n", "e", "f", "i", "t">>,
               <<"s", "a", "l", "a", "r", "y">>,
               <<"m", "o", "n", "e", "y">>>>],
    [topic |-> "support",
     words |-> <<<<"h", "e", "l", "p">>,
               <<"s", "u", "p", "p", "o", "r", "t">>,
               <<"c", "o", "n", "t", "a", "c", "t">>>>] >>

AnyWordIn(words, text) == \E w \in DOMAIN words : Contains(words[w], text)

(* lines 574, 578-587: the topic of one turn, "none" if no keyword is in the
   lowered message *)
TopicOf(user_msg) ==
    With(lower(user_msg),
         LAMBDA lowered :
             IF \E t \in DOMAIN TopicKeywords : AnyWordIn(TopicKeywords[t].words, lowered)
             THEN TopicKeywords[CHOOSE t \in DOMAIN TopicKeywords :
                                   /\ AnyWordIn(TopicKeywords[t].words, lowered)
                                   /\ \A e \in 1..(t - 1) :
                                         ~AnyWordIn(TopicKeywords[e].words, lowered)].topic
             ELSE "none")

(* line 573: the last 3 entries of the history *)
RecentTurns(history) ==
    SubSeq(history,
           IF Len(history) > ContextTurns THEN Len(history) - ContextTurns + 1 ELSE 1,
           Len(history))

(* Variant of Preview: the reply is taken whole. *)
PreviewWhole(bot) == bot

(* line 575: the first 150 characters of the reply *)
Preview(bot) == SubSeq(bot, 1, Min(PreviewLength, Len(bot)))

NoContext == [is |-> "none", turns |-> <<>>, topics |-> {}]

(* build_conversation_context(chat_history) *)
build_conversation_context(history) ==
    IF history = <<>>
    THEN [is |-> "first", turns |-> <<>>, topics |-> {}]
    ELSE With(RecentTurns(history),
              LAMBDA recent :
                  [is |-> "history",
                   turns |-> [i \in DOMAIN recent |->
                                 [n |-> i, user |-> recent[i].user,
                                  bot |-> Preview(recent[i].bot)]],
                   topics |-> {TopicOf(recent[i].user) : i \in DOMAIN recent} \ {"none"}])

MaxHistory == 4

(* the turns of the model: replies of 2, of 150 and of 151 characters *)
Turns == {
    [user |-> <<"H", "o", "w", " ", "t", "o", " ", "A", "p", "p", "l", "y">>,
     bot |-> <<"o", "k">>],
    [user |-> <<"s", "a", "l", "a", "r", "y">>, bot |-> Letters(PreviewLength)],
    [user |-> Hi, bot |-> Letters(PreviewLength) \o <<"b">>] }

Histories == UNION {[1..n -> Turns] : n \in 0..MaxHistory}

(* one call of build_conversation_context *)
BuildConversationContext ==
    /\ \E history \in Histories :
          /\ contextHistory' = history
          /\ context' = build_conversation_context(history)
    /\ UNCHANGED <<handleVars, rankVars, requestVars, scoreVars, fallbackCall,
                   fallbackReply, fallbackPrevious>>

----------------------------------------------------------------------------
(* The keyword responder: get_fallback_response, lines 840-940, with
   get_enhanced_general_response, lines 711-838.  A reply is modelled by the
   template it is made from, the name put into it and, for a greeting, the
   list it was taken from and its place in that list. *)

(* lines 716-794: the general topics and their keywords, in the order of the
   elif chain *)
GeneralKeywords == <<
    [template |-> "tech",
     words |-> <<<<"t", "e", "c", "h", "n", "o", "l", "o", "g", "y">>,
                <<"t", "e", "c", "h">>,
                <<"p", "r", "o", "g", "r", "a", "m", "m", "i", "n", "g">>,
                <<"c", "o", "d", "i", "n", "g">>,
                <<"s", "o", "f", "t", "w", "a", "r", "e">>,
                <<"c", "o", "m", "p", "u", "t", "e", "r">>, <<"a", "i">>,
                <<"m", "a", "c", "h", "i", "n", "e", " ", "l", "e", "a", "r", "n", "i", "n", "g">>,
                <<"d", "a", "t", "a", " ", "s", "c", "i", "e", "n", "c", "e">>>>],
    [template |-> "education",
     words |-> <<<<"e", "d", "u", "c", "a", "t", "i", "o", "n">>,
                <<"s", "t", "u", "d", "y">>, <<"l", "e", "a", "r", "n">>,
                <<"c", "o", "u", "r", "s", "e">>, <<"d", "e", "g", "r", "e", "e">>,
                <<"c", "o", "l", "l", "e", "g", "e">>,
                <<"u", "n", "i", "v", "e", "r", "s", "i", "t", "y">>,
                <<"s", "c", "h", "o", "o", "l">>>>],
    [template |-> "career",
     words |-> <<<<"c", "a", "r", "e", "e", "r">>, <<"j", "o", "b">>,
                <<"w", "o", "r", "k">>,
                <<"e", "m", "p", "l", "o", "y", "m", "e", "n", "t">>,
                <<"p", "r", "o", "f", "e", "s", "s", "i", "o", "n">>,
                <<"f", "u", "t", "u", "r", "e">>, <<"g", "r", "o", "w", "t", "h">>>>],
    [template |-> "life",
     words |-> <<<<"l", "i", "f", "e">>, <<"s", "u", "c", "c", "e", "s", "s">>,
                <<"m", "o", "t", "i", "v", "a", "t", "i", "o", "n">>,
                <<"i", "n", "s", "p", "i", "r", "e">>, <<"d", "r", "e", "a", "m">>,
                <<"g", "o", "a", "l">>, <<"f", "u", "t", "u", "r", "e">>,
                <<"a", "d", "v", "i", "c", "e">>>>],
    [template |-> "health",
     words |-> <<<<"h", "e", "a", "l", "t", "h">>,
                <<"f", "i", "t", "n", "e", "s", "s">>,
                <<"w", "e", "l", "l", "n", "e", "s", "s">>,
                <<"e", "x", "e", "r", "c", "i", "s", "e">>,
                <<"m", "e", "n", "t", "a", "l", " ", "h", "e", "a", "l", "t", "h">>,
                <<"s", "t", "r", "e", "s", "s">>>>] >>

(* lines 851-915: the categories and their keywords, in the order of the elif
   chain *)
CategoryKeywords == <<
    [template |-> "greeting",
     words |-> <<<<"h", "i">>, <<"h", "e", "l", "l", "o">>, <<"h", "e", "y">>,
                <<"n", "a", "m", "a", "s", "t", "e">>,
                <<"g", "o", "o", "d", " ", "m", "o", "r", "n", "i", "n", "g">>,
                <<"g", "o", "o", "d", " ", "a", "f", "t", "e", "r", "n", "o", "o", "n">>,
                <<"g", "o", "o", "d", " ", "e", "v", "e", "n", "i", "n", "g">>>>],
    [template |-> "application",
     words |-> <<<<"a", "p", "p", "l", "y">>,
                <<"a", "p", "p", "l", "i", "c", "a", "t", "i", "o", "n">>,
                <<"h", "o", "w", " ", "t", "o", " ", "a", "p", "p", "l", "y">>,
                <<"p", "r", "o", "c", "e", "s", "s">>, <<"s", "t", "e", "p", "s">>>>],
    [template |-> "eligibility",
     words |-> <<<<"e", "l", "i", "g", "i", "b", "l", "e">>,
                <<"e", "l", "i", "g", "i", "b", "i", "l", "i", "t", "y">>,
                <<"c", "r", "i", "t", "e", "r", "i", "a">>,
                <<"q", "u", "a", "l", "i", "f", "y">>,
                <<"r", "e", "q", "u", "i", "r", "e", "m", "e", "n", "t", "s">>>>],
    [template |-> "benefits",
     words |-> <<<<"s", "t", "i", "p", "e", "n", "d">>,
                <<"b", "e", "n", "e", "f", "i", "t">>,
                <<"s", "a", "l", "a", "r", "y">>, <<"m", "o", "n", "e", "y">>,
                <<"p", "a", "y", "m", "e", "n", "t">>,
                <<"a", "l", "l", "o", "w", "a", "n", "c", "e">>,
                <<"g", "r", "a", "n", "t">>>>],
    [template |-> "documents",
     words |-> <<<<"d", "o", "c", "u", "m", "e", "n", "t">>,
                <<"d", "o", "c", "u", "m", "e", "n", "t", "s">>,
                <<"p", "a", "p", "e", "r", "s">>,
                <<"c", "e", "r", "t", "i", "f", "i", "c", "a", "t", "e", "s">>,
                <<"u", "p", "l", "o", "a", "d">>>>],
    [template |-> "support",
     words |-> <<<<"h", "e", "l", "p">>, <<"s", "u", "p", "p", "o", "r", "t">>,
                <<"c", "o", "n", "t", "a", "c", "t">>, <<"p", "h", "o", "n", "e">>,
                <<"e", "m", "a", "i", "l">>,
                <<"a", "s", "s", "i", "s", "t", "a", "n", "c", "e">>>>] >>

(* the first entry of an elif chain with a keyword in the text, 0 if there is
   none *)
FirstMatch(chain, text) ==
    IF \E t \in DOMAIN chain : AnyWordIn(chain[t].words, text)
    THEN CHOOSE t \in DOMAIN chain :
             /\ AnyWordIn(chain[t].words, text)
             /\ \A e \in 1..(t - 1) : ~AnyWordIn(chain[e].words, text)
    ELSE 0

(* get_enhanced_general_response(message, user_name): the template of line
   815 if no topic matches *)
get_enhanced_general_response(message, user_name) ==
    With(FirstMatch(GeneralKeywords, lower(message)),
         LAMBDA t :
             [template |-> IF t = 0 THEN "general" ELSE GeneralKeywords[t].template,
              user_name |-> user_name])

(* line 847: "PM Internship Connection" (line 744, the education template)
   or "My Specialty" (line 826, the template of line 815) is in the text;
   the names of the model hold neither *)
HasMarker(general_response) == general_response.template \in {"education", "general"}

Reply(template, user_name, greetings, variant) ==
    [template |-> template, user_name |-> user_name, greetings |-> greetings,
     variant |-> variant]

(* get_fallback_response(message) for the user_name and the profile of the
   session; choice is the entry random.choice takes (line 876) *)
get_fallback_response(message, user_name, profile, choice) ==
    With(get_enhanced_general_response(message, user_name),
         LAMBDA general_response :
             IF ~HasMarker(general_response)
             THEN Reply(general_response.template, user_name, "none", 0)
             ELSE With(FirstMatch(CategoryKeywords, lower(message)),
                       LAMBDA c :
                           IF c = 0 THEN Reply("generic", user_name, "none", 0)
                           ELSE IF CategoryKeywords[c].template = "greeting"
                           THEN Reply("greeting", user_name, profile, choice)
                           ELSE Reply(CategoryKeywords[c].template, user_name, "none", 0)))

(* the messages of the model *)
FallbackMessages == {
    <<"h", "i">>,
    <<"H", "e", "l", "l", "o">>,
    <<"h", "e", "l", "l", "o", ",", " ", "h", "o", "w", " ", "t", "o", " ", "a", "p", "p", "l", "y">>,
    <<"h", "o", "w", " ", "t", "o", " ", "a", "p", "p", "l", "y">>,
    <<"a", "m", " ", "i", " ", "e", "l", "i", "g", "i", "b", "l", "e">>,
    <<"s", "t", "i", "p", "e", "n", "d">>,
    <<"u", "p", "l", "o", "a", "d", " ", "d", "o", "c", "u", "m", "e", "n", "t", "s">>,
    <<"c", "o", "n", "t", "a", "c", "t", " ", "s", "u", "p", "p", "o", "r", "t">>,
    <<"e", "m", "a", "i", "l">>,
    <<"h", "i", " ", "t", "e", "c", "h">>,
    <<"t", "h", "a", "n", "k", "s">>,
    <<"s", "t", "u", "d", "y">>,
    <<"j", "o", "b">>,
    <<"a", "p", "p", "l", "y", " ", "a", "n", "d", " ", "u", "p", "l", "o", "a", "d", " ", "d", "o", "c", "u", "m", "e", "n", "t", "s">> }

(* session.get('user_name', 'there') *)
UserNames == {<<"t", "h", "e", "r", "e">>, <<"A", "s", "h", "a">>}

(* lines 853-875: the profile of the session is complete, is not, or there
   is none *)
ProfileStatus == {"completed", "incomplete", "none"}

(* lines 857-875: each list of greetings has 3 entries *)
Greetings == 1..3

(* what get_fallback_response makes of every message of the model, computed
   once *)
FallbackReplies ==
    [message \in FallbackMessages |->
        [user_name \in UserNames |->
            [profile \in ProfileStatus |->
                [choice \in Greetings |->
                    get_fallback_response(message, user_name, profile, choice)]]]]

NoFallbackCall ==
    [called |-> FALSE, message |-> <<>>, user_name |-> <<>>, profile |-> "none"]

NoFallbackReply == Reply("none", <<>>, "none", 0)

(* one call of get_fallback_response *)
GetFallbackResponse ==
    /\ \E message \in FallbackMessages, user_name \in UserNames,
          profile \in ProfileStatus, choice \in Greetings :
          /\ fallbackCall' = [called |-> TRUE, message |-> message,
                              user_name |-> user_name, profile |-> profile]
          /\ fallbackReply' = FallbackReplies[message][user_name][profile][choice]
    /\ fallbackPrevious' = [call |-> fallbackCall, reply |-> fallbackReply]
    /\ UNCHANGED <<handleVars, rankVars, requestVars, scoreVars, contextHistory,
                   context>>

----------------------------------------------------------------------------
(* The two routes as operations on the program's state: one request handled
   from the loading of the session to its storing. *)

MaxChats == 6

(* POST /chat *)
Chat ==
    /\ started < MaxChats
    /\ started' = started + 1
    /\ \E body \in Bodies, construction \in Constructions, reply \in ChatReplies :
          \E r \in {chat(body, ensure_language_selection(OpenSession(session)),
                         construction, reply)} :
              /\ session' = SaveSession(session, r.session)
              /\ response' = r.response
              /\ last' = [r.did EXCEPT !.body = body]
              /\ gemini_model' = r.model
              /\ gemini_model_error' = r.error
              /\ aiCalls' = IF r.did.ai THEN aiCalls + 1 ELSE aiCalls
              /\ conversation' = IF r.did.ai /\ ~r.did.failed
                             THEN Append(conversation,
                                         [user |-> UserMessage(body),
                                          bot |-> r.response.reply.text])
                             ELSE conversation
    /\ UNCHANGED <<keyPresent, gemini_lock, pc, kind, model_instance, built,
                   underConstruction, completed, returned, retLines, outcome, rankVars,
                   scoreVars, responderVars>>

(* GET /api/generate-ai-recommendations: generate_ai_recommendations(), lines
   1855-1884.  The except block of line 1875 is entered if
   generate_recommendations_fast or the second ranking raises, which they do
   not on a profile and on a list of dicts. *)
generate_ai_recommendations(u, construction, reply) ==
    IF u = NoUser
    THEN Result(Response(404, FALSE, "User not found", NoReply, FALSE, <<>>),
                OpenSession(session), Untouched, Did("api", FALSE, None, FALSE, FALSE, FALSE, FALSE))
    ELSE With(get_gemini_model(construction),
              LAMBDA handle :
                  With(generate_recommendations_fast(u, handle.value, reply),
                       LAMBDA fast :
                           Result(Response(200, TRUE, "None", NoReply, FALSE,
                                           RankedReply(fast.list, u)),
                                  OpenSession(session), handle,
                                  [Did("api", TRUE, handle.value, fast.ai, fast.failed,
                                       fast.path # "L1326", FALSE)
                                     EXCEPT !.class = reply.class, !.path = fast.path,
                                            !.fast = fast.list])))

GenerateAiRecommendations ==
    /\ started < MaxRequests
    /\ started' = started + 1
    /\ \E construction \in Constructions, reply \in RankingReplies :
          \E r \in {generate_ai_recommendations(user, construction, reply)} :
              /\ session' = SaveSession(session, ensure_language_selection(r.session))
              /\ response' = r.response
              /\ last' = r.did
              /\ gemini_model' = r.model
              /\ gemini_model_error' = r.error
              /\ aiCalls' = IF r.did.ai THEN aiCalls + 1 ELSE aiCalls
    /\ UNCHANGED <<keyPresent, gemini_lock, pc, kind, model_instance, built,
                   underConstruction, completed, returned, retLines, outcome, rankVars,
                   conversation, scoreVars, responderVars>>

----------------------------------------------------------------------------
(* calculate_skill_match_score as a function of its three arguments: the user
   skills (a list or a comma-separated str), the required skills and the
   profile, drawn from the values below. *)

(* user_skills_string *)
UserSkillArgs == <<
    SkillList(<<>>),
    SkillString(<<>>),
    SkillList(<<<<" ", " ">>, <<" ">>>>),
    SkillString(<<" ", ",", " ">>),
    SkillList(<<<<"P", "y", "t", "h", "o", "n">>>>),
    SkillList(<<<<"s", "q", "l">>, <<" ", "P", "Y", "T", "H", "O", "N", " ">>, <<"r", "e", "a", "c", "t">>>>),
    SkillList(<<<<"p", "y">>>>),
    SkillList(<<<<"J", "a", "v", "a", "S", "c", "r", "i", "p", "t">>>>),
    SkillList(<<<<"j", "a", "v", "a", "8">>>>),
    SkillList(<<<<"m", "s", "s", "q", "l">>>>),
    SkillString(<<"j", "s", ",", " ", "h", "t", "m", "l">>) >>

(* required_skills_list *)
RequiredSkillArgs == <<
    <<>>,
    <<<<" ">>>>,
    <<<<"P", "y", "t", "h", "o", "n">>>>,
    <<<<"p", "y", "t", "h", "o", "n">>, <<"S", "Q", "L">>>>,
    <<<<"J", "a", "v", "a", "S", "c", "r", "i", "p", "t">>>>,
    <<<<"j", "s">>>>,
    <<<<"J", "a", "v", "a">>>>,
    <<<<"M", "y", "S", "Q", "L">>>>,
    <<<<"p", "y", "t", "h", "o", "n">>, <<"j", "a", "v", "a">>, <<"e", "x", "c", "e", "l">>>> >>

(* user_profile: None, or a dict with none, each one or all of the three
   signals of lines 1006-1023 *)
Profile(qualification, area_of_interest, prior_internship) ==
    [qualification |-> qualification, area_of_interest |-> area_of_interest,
     prior_internship |-> prior_internship]

NoSignals == Profile(<<"B", ".", "A", ".", " ", "E", "n", "g", "l", "i", "s", "h">>, <<>>, <<"n", "o">>)

QualificationOnly == Profile(<<"B", ".", "S", "c", " ", "C", "o", "m", "p", "u", "t", "e", "r", " ", "S", "c", "i", "e", "n", "c", "e">>, <<"A", "r", "t", "s">>, <<>>)

InterestOnly == Profile(<<>>, <<"H", "e", "a", "l", "t", "h", "c", "a", "r", "e">>, <<"N", "o">>)

PriorOnly == Profile(<<"D", "i", "p", "l", "o", "m", "a">>, <<>>, <<"y", "e", "s">>)

AllSignals == Profile(<<"B", "T", "e", "c", "h">>, <<"F", "i", "n", "a", "n", "c", "e", " ", "a", "n", "d", " ", "T", "e", "c", "h", "n", "o", "l", "o", "g", "y">>, <<"y", "e", "s">>)

ProfileArgs == <<NoUser, NoSignals, QualificationOnly, InterestOnly, PriorOnly, AllSignals>>

(* no call yet *)
NoCall == [user_skills |-> SkillList(<<>>), required_skills |-> <<>>,
           profile |-> NoUser, called |-> FALSE]

(* calculate_skill_match_score on every triple of these arguments, by their
   positions, computed once *)
SkillMatchScores ==
    [i \in DOMAIN UserSkillArgs |->
       [j \in DOMAIN RequiredSkillArgs |->
          [k \in DOMAIN ProfileArgs |->
             calculate_skill_match_score(
                 UserSkillArgs[i], RequiredSkillArgs[j], ProfileArgs[k])]]]

(* a call of calculate_skill_match_score(user_skills_string,
   required_skills_list, user_profile) and its return value *)
CalculateSkillMatchScore ==
    /\ \E i \in DOMAIN UserSkillArgs, j \in DOMAIN RequiredSkillArgs,
          k \in DOMAIN ProfileArgs :
          /\ scoreCall' = [user_skills |-> UserSkillArgs[i],
                           required_skills |-> RequiredSkillArgs[j],
                           profile |-> ProfileArgs[k], called |-> TRUE]
          /\ scoreResult' = SkillMatchScores[i][j][k]
    /\ UNCHANGED <<handleVars, rankVars, requestVars, responderVars>>

----------------------------------------------------------------------------
(* Specifications *)

(* the process after the module is loaded (lines 76-78), no request running *)
HandleStart ==
    /\ gemini_model = None
    /\ gemini_model_error = NoError
    /\ gemini_lock = NoThread
    /\ pc = [t \in Threads |-> "idle"]
    /\ kind = [t \in Threads |-> "rank"]
    /\ model_instance = [t \in Threads |-> None]
    /\ started = 0
    /\ built = [t \in Threads |-> 0]
    /\ underConstruction = {}
    /\ completed = {}
    /\ returned = {}
    /\ retLines = [t \in Threads |-> "none"]
    /\ aiCalls = 0
    /\ outcome = [t \in Threads |-> "none"]

RankStart ==
    /\ ranked = <<>>
    /\ prevRanked = <<>>
    /\ rankCalls = 0
    /\ reranked = FALSE

ScoreStart ==
    /\ scoreCall = NoCall
    /\ scoreResult = NoScore

(* neither build_conversation_context nor get_fallback_response called yet *)
ResponderStart ==
    /\ contextHistory = <<>>
    /\ context = NoContext
    /\ fallbackCall = NoFallbackCall
    /\ fallbackReply = NoFallbackReply
    /\ fallbackPrevious = [call |-> NoFallbackCall, reply |-> NoFallbackReply]

(* no request of the client handled yet; permanent is whether the client
   logged in with "remember" (line 453) *)
RequestStart(permanent) ==
    /\ session = [language |-> FALSE, permanent |-> permanent,
                  has_history |-> FALSE, chat_history |-> <<>>]
    /\ response = NoResponse
    /\ last = Nothing
    /\ conversation = <<>>

(* concurrent ranking and chat requests acquiring the handle *)
InitHandle ==
    /\ keyPresent \in BOOLEAN
    /\ HandleStart
    /\ user = NoUser
    /\ pool = <<>>
    /\ RankStart
    /\ RequestStart(FALSE)
    /\ ScoreStart
    /\ ResponderStart

NextHandle ==
    \E t \in Threads :
        \/ \E k \in {"rank", "chat"} : StartRequest(t, k)
        \/ L85(t) \/ L86(t) \/ L88(t) \/ L90(t) \/ L92(t) \/ L94(t) \/ L96(t) \/ L97(t)
        \/ L100(t) \/ L101(t) \/ L101r(t) \/ L106(t) \/ L106r(t) \/ L109(t) \/ L110(t)
        \/ L113(t) \/ L114(t)
        \/ L1283(t) \/ L1285(t) \/ L1307(t) \/ L1326(t) \/ L1339(t)
        \/ L603(t) \/ L604(t) \/ L657(t) \/ L697(t) \/ L699(t)

SpecHandle == InitHandle /\ [][NextHandle]_vars

(* the steps of thread t that are the program's own: every statement but the
   two calls of generate_content (lines 1307 and 657), which end when the AI
   service answers or fails and are given no timeout *)
OwnStep(t) ==
    \/ L85(t) \/ L86(t) \/ L88(t) \/ L90(t) \/ L92(t) \/ L94(t) \/ L96(t) \/ L97(t)
    \/ L100(t) \/ L101(t) \/ L101r(t) \/ L106(t) \/ L106r(t) \/ L109(t) \/ L110(t)
    \/ L113(t) \/ L114(t)
    \/ L1283(t) \/ L1285(t) \/ L1326(t) \/ L1339(t)
    \/ L603(t) \/ L604(t) \/ L697(t) \/ L699(t)

(* the same requests, each thread running on as long as it can take a step of
   its own *)
SpecHandleFair == SpecHandle /\ \A t \in Threads : WF_vars(OwnStep(t))

(* sort_recommendations_by_match on every pool and profile of the model *)
InitRank ==
    /\ keyPresent = TRUE
    /\ HandleStart
    /\ user \in Users
    /\ pool \in Pools
    /\ RankStart
    /\ RequestStart(FALSE)
    /\ ScoreStart
    /\ ResponderStart

NextRank == SortRecommendations

SpecRank == InitRank /\ [][NextRank]_vars

(* sort_recommendations_by_match on pools whose candidates tie *)
InitRankTies ==
    /\ keyPresent = TRUE
    /\ HandleStart
    /\ user \in Users
    /\ pool \in TiePools
    /\ RankStart
    /\ RequestStart(FALSE)
    /\ ScoreStart
    /\ ResponderStart

SpecRankTies == InitRankTies /\ [][NextRank]_vars

(* sort_recommendations_by_match on lists as an AI reply may hold them, and
   on its own results *)
InitRankListed ==
    /\ keyPresent = TRUE
    /\ HandleStart
    /\ user \in Users
    /\ pool \in ListedPools
    /\ RankStart
    /\ RequestStart(FALSE)
    /\ ScoreStart
    /\ ResponderStart

NextRankListed == SortRecommendations \/ SortSortedRecommendations

SpecRankListed == InitRankListed /\ [][NextRankListed]_vars

(* the chat requests of one client, one after the other *)
InitChat ==
    /\ keyPresent \in BOOLEAN
    /\ HandleStart
    /\ user = NoUser
    /\ pool = <<>>
    /\ RankStart
    /\ \E permanent \in BOOLEAN : RequestStart(permanent)
    /\ ScoreStart
    /\ ResponderStart

NextChat == Chat

SpecChat == InitChat /\ [][NextChat]_vars

(* the ranking requests of one client, one after the other *)
InitRanking ==
    /\ keyPresent \in BOOLEAN
    /\ HandleStart
    /\ user \in Profiles
    /\ pool = <<>>
    /\ RankStart
    /\ RequestStart(FALSE)
    /\ ScoreStart
    /\ ResponderStart

NextRanking == GenerateAiRecommendations

SpecRanking == InitRanking /\ [][NextRanking]_vars

(* calculate_skill_match_score on every argument of the model *)
InitScore ==
    /\ keyPresent = TRUE
    /\ HandleStart
    /\ user = NoUser
    /\ pool = <<>>
    /\ RankStart
    /\ RequestStart(FALSE)
    /\ ScoreStart
    /\ ResponderStart

NextScore == CalculateSkillMatchScore

SpecScore == InitScore /\ [][NextScore]_vars

(* build_conversation_context on every history of the model *)
InitContext ==
    /\ keyPresent = TRUE
    /\ HandleStart
    /\ user = NoUser
    /\ pool = <<>>
    /\ RankStart
    /\ RequestStart(FALSE)
    /\ ScoreStart
    /\ ResponderStart

NextContext == BuildConversationContext

SpecContext == InitContext /\ [][NextContext]_vars

(* get_fallback_response on every message, name and profile of the model,
   call after call *)
InitFallback ==
    /\ keyPresent = TRUE
    /\ HandleStart
    /\ user = NoUser
    /\ pool = <<>>
    /\ RankStart
    /\ RequestStart(FALSE)
    /\ ScoreStart
    /\ ResponderStart

NextFallback == GetFallbackResponse

SpecFallback == InitFallback /\ [][NextFallback]_vars

----------------------------------------------------------------------------
(* Properties of the handle, checked under SpecHandle *)

(* the statements of the construction block, lines 100-109, up to the one that
   resolves the handle *)
ConstructionInProgress ==
    \E u \in Threads : pc[u] \in {"L100", "L101", "L101r", "L106", "L106r", "L109"}

(* thread t leaves get_gemini_model in this step *)
Returns(t) ==
    /\ pc[t] \in {"L86", "L92", "L97", "L114"}
    /\ pc'[t] \in {"L1283", "L603"}

(* C1: with a credential present, the construction block (genai.configure and
   the GenerativeModel construction) is executed at most once in the whole
   process, by one thread, and exactly once by the time any call has
   returned; every other thread performs no construction. *)
C1_OneConstruction ==
    keyPresent =>
        /\ \A t \in Threads : built[t] <= 1
        /\ \A t, u \in Threads : built[t] > 0 /\ built[u] > 0 => t = u
        /\ returned # {} => \E t \in Threads : built[t] = 1

(* two threads passed the outer check together: one built the client, the
   other came through the check inside the lock and built nothing *)
C1_Witness ==
    /\ keyPresent
    /\ \E t, u \in Threads :
          /\ t # u
          /\ built[t] = 1 /\ retLines[t] = "L114"
          /\ built[u] = 0 /\ retLines[u] = "L97"

(* C2: all calls of get_gemini_model return the same result: the same client
   instance for all of them, with no failure recorded, or None for all of them,
   with a failure reason recorded; never a client for one caller and None for
   another. *)
C2_AllCallersAgree ==
    /\ Cardinality(returned) <= 1
    /\ None \in returned => gemini_model = None /\ gemini_model_error # NoError
    /\ \A c \in returned \ {None} : gemini_model = c /\ gemini_model_error = NoError

(* two concurrent first calls both returned the one client *)
C2_Witness ==
    \E t, u \in Threads :
        /\ t # u
        /\ retLines[t] = "L114" /\ retLines[u] = "L97"
        /\ model_instance[t] # None
        /\ model_instance[t] = model_instance[u]

(* C3: once _gemini_model or _gemini_model_error is set, no step of any call
   changes either variable or executes the construction block again. *)
C3_Sticky ==
    [][(gemini_model # None \/ gemini_model_error # NoError) =>
          /\ gemini_model' = gemini_model
          /\ gemini_model_error' = gemini_model_error
          /\ built' = built
          /\ underConstruction' = underConstruction]_vars

(* after a failed initialisation a later call went through the outer check
   and returned *)
C3_Witness ==
    /\ gemini_model_error = "Gemini init failed"
    /\ \E t \in Threads : retLines[t] = "L86" /\ built[t] = 0

(* C4: every client a call has returned is one whose construction has
   completed, and no call returns while a construction is still in progress
   (a caller arriving then waits until the handle is resolved). *)
C4_NoPartialHandle ==
    /\ [](\A c \in returned \ {None} : c \in completed /\ c \notin underConstruction)
    /\ [][ConstructionInProgress => \A t \in Threads : ~Returns(t)]_vars

(* a caller that arrived while another thread was constructing has returned
   the client that thread built *)
C4_Witness ==
    \E t, u \in Threads :
        /\ t # u
        /\ retLines[u] = "L97"
        /\ model_instance[u] \in completed
        /\ model_instance[u].by = t

(* C5: once the handle is Failed, no request has called or calls the AI
   service, and every ranking and chat request that ends is answered from the
   fallback catalog. *)
C5_FailedMeansFallback ==
    gemini_model_error # NoError =>
        /\ aiCalls = 0
        /\ \A t \in Threads :
              /\ pc[t] \notin {"L1307", "L1326", "L657", "L697"}
              /\ outcome[t] \in {"none", "pending", "fallback"}

(* after both constructions failed, a later ranking request and a later chat
   request were answered from the fallback *)
C5_Witness ==
    /\ gemini_model_error = "Gemini init failed"
    /\ \E t, u \in Threads :
          /\ kind[t] = "rank" /\ retLines[t] = "L86" /\ outcome[t] = "fallback"
          /\ kind[u] = "chat" /\ retLines[u] = "L86" /\ outcome[u] = "fallback"

----------------------------------------------------------------------------
(* Properties of the ranking, checked under SpecRank *)

(* how many entries of a list are (are not) of type government *)
CountGovernment(recs, government) ==
    Cardinality({i \in DOMAIN recs : (recs[i].type = "government") = government})

(* min(100, base + 10) for a government candidate and the base score for any
   other, in tenths, from the score of calculate_skill_match_score *)
ExpectedScore(rec) ==
    LET base == ScoreTable[user][rec.skills]
    IN  IF rec.type = "government"
        THEN (IF base + 100 > 1000 THEN 1000 ELSE base + 100)
        ELSE base

(* C6: the ranking returns at most 5 candidates, each carrying a
   skill_match_score, in order of non-increasing skill_match_score. *)
C6_AtMostFiveSorted ==
    rankCalls > 0 =>
        /\ Len(ranked) <= 5
        /\ \A k \in DOMAIN ranked : ranked[k].skill_match_score # NoScore
        /\ \A k \in 1..(Len(ranked) - 1) :
              ranked[k].skill_match_score >= ranked[k + 1].skill_match_score

(* a pool of more than 5 was cut to 5 candidates of different scores, of both
   categories *)
C6_Witness ==
    /\ rankCalls > 0
    /\ Len(pool) > 5
    /\ Len(ranked) = 5
    /\ ranked[1].skill_match_score > ranked[5].skill_match_score
    /\ CountGovernment(ranked, TRUE) > 0
    /\ CountGovernment(ranked, FALSE) > 0

(* C7: the result holds more than 3 candidates of one category only if it
   holds every candidate of the other category that is in the pool. *)
C7_QuotaUnlessExhausted ==
    rankCalls > 0 =>
        /\ CountGovernment(ranked, TRUE) > 3 =>
              CountGovernment(ranked, FALSE) = CountGovernment(pool, FALSE)
        /\ CountGovernment(ranked, FALSE) > 3 =>
              CountGovernment(ranked, TRUE) = CountGovernment(pool, TRUE)

(* a pool with one private candidate and more than 3 government ones gave a
   result with more than 3 government candidates *)
C7_Witness ==
    /\ rankCalls > 0
    /\ CountGovernment(pool, FALSE) = 1
    /\ CountGovernment(ranked, TRUE) > 3

(* C8: the ranking returns exactly min(5, size of the pool) candidates. *)
C8_ExactlyMinFive ==
    rankCalls > 0 => Len(ranked) = Min(5, Len(pool))

(* C9: a government candidate reports min(100, base score + 10), any other
   candidate its base score; the reported value is the one the government
   bucket is cut by and the returned list is sorted by. *)
C9_BoostCapped ==
    rankCalls > 0 =>
        /\ \A i \in DOMAIN pool : pool[i].skill_match_score = ExpectedScore(pool[i])
        /\ \A k \in DOMAIN ranked :
              ranked[k].skill_match_score = ExpectedScore(pool[ranked[k].id])
        /\ \A k \in 1..(Len(ranked) - 1) :
              ExpectedScore(pool[ranked[k].id]) >= ExpectedScore(pool[ranked[k + 1].id])
        /\ \A i \in DOMAIN pool :
              (/\ pool[i].type = "government"
               /\ \A k \in DOMAIN ranked : ranked[k].id # i)
              => \A k \in DOMAIN ranked :
                    ranked[k].type = "government"
                    => ExpectedScore(pool[ranked[k].id]) >= ExpectedScore(pool[i])

(* a government candidate with base score 95 reports 100, next to a private
   candidate that reports its base score 92.5 *)
C9_Witness ==
    /\ rankCalls > 0
    /\ \E k \in DOMAIN ranked :
          /\ ranked[k].type = "government"
          /\ ScoreTable[user][ranked[k].skills] = 950
          /\ ranked[k].skill_match_score = 1000
    /\ \E k \in DOMAIN ranked :
          /\ ranked[k].type = "private-based"
          /\ ranked[k].skill_match_score = 925

(* C10: ranking the same list again, with the scores of the first ranking
   written into its candidates, returns the same candidates in the same order
   with the same scores. *)
C10_Deterministic ==
    rankCalls = 2 => ranked = prevRanked

(* a list was ranked twice and its result holds a government candidate whose
   boosted score is below the cap *)
C10_Witness ==
    /\ rankCalls = 2
    /\ Len(ranked) = 5
    /\ \E k \in DOMAIN ranked :
          /\ ranked[k].type = "government"
          /\ ranked[k].skill_match_score < 1000
          /\ ranked[k].skill_match_score > 100

----------------------------------------------------------------------------
(* Properties of the ranking route, checked under SpecRanking *)

(* the score the ranking gives a candidate of this type and these skills, in
   tenths *)
ScoreFor(type, skills) ==
    IF type = "government"
    THEN (IF ScoreTable[user][skills] + 100 > 1000 THEN 1000
          ELSE ScoreTable[user][skills] + 100)
    ELSE ScoreTable[user][skills]

(* a list as the ranking leaves it: at most 5 candidates, at most 3 of them
   not of type government, each with its score, in order of non-increasing
   score *)
IsRanked(list) ==
    /\ Len(list) <= 5
    /\ Cardinality({k \in DOMAIN list : list[k].type # "government"}) <= 3
    /\ \A k \in DOMAIN list :
          list[k].skill_match_score = ScoreFor(list[k].type, list[k].skills)
    /\ \A k \in 1..(Len(list) - 1) :
          list[k].skill_match_score >= list[k + 1].skill_match_score

(* a list ranked from the catalog: 5 of its entries, 3 of type government *)
IsFromCatalog(list) ==
    /\ Len(list) = 5
    /\ Cardinality({k \in DOMAIN list : list[k].type = "government"}) = 3
    /\ \A k \in DOMAIN list :
          \E i \in DOMAIN all_recommendations :
              /\ all_recommendations[i].type = list[k].type
              /\ all_recommendations[i].skills = list[k].skills

(* C11: a ranking request for a profile never fails and returns a list that
   is not empty, whatever the AI call gave, an empty JSON array included. *)
C11_NeverEmpty ==
    last.route = "api" /\ user # NoUser =>
        /\ response.status = 200
        /\ response.recommendations # <<>>

(* C17: every list a ranking request returns, from generate_recommendations_fast
   and in the response, is scored and ranked by sort_recommendations_by_match:
   the list of the AI if it was accepted, the catalog on every other path. *)
C17_AlwaysRanked ==
    last.route = "api" /\ response.status = 200 =>
        /\ last.path \in {"L1285", "L1326", "L1342"}
        /\ IsRanked(last.fast)
        /\ IsRanked(response.recommendations)
        /\ last.path # "L1326" =>
              IsFromCatalog(last.fast) /\ IsFromCatalog(response.recommendations)

(* the AI gave a private-based candidate before a government one, and the
   ranking returned them with their scores, the government one first *)
C17_Witness ==
    /\ last.route = "api" /\ last.path = "L1326"
    /\ Len(last.fast) = 2
    /\ last.fast[1].id = 2 /\ last.fast[1].type = "government"
    /\ last.fast[1].skill_match_score > last.fast[2].skill_match_score
    /\ Len(response.recommendations) = 2

(* C18: if an element of the array the AI gave is no object, or is an object
   without its 'skills' or its 'type', the reply is rejected and the catalog is
   ranked instead. *)
C18_RejectsMalformed ==
    /\ last.route = "api" /\ response.status = 200 /\ last.ai
    /\ last.class.is = "JSON" /\ ~last.class.candidates
    => last.path = "L1342" /\ IsFromCatalog(response.recommendations)

(* C19: when the AI call raises, or its text is empty, has no "[", has no "]",
   or has no JSON text from its first "[" to its last "]", the request is
   answered, without an error, by the ranked catalog. *)
C19_FailureMeansCatalog ==
    /\ last.route = "api" /\ last.ai
    /\ last.class.is \in {"raises", "empty", "no [", "no ]", "not JSON"}
    => /\ response.status = 200 /\ response.success /\ response.error = "None"
       /\ last.failed /\ last.fallback
       /\ IsFromCatalog(response.recommendations)
       /\ IsRanked(response.recommendations)

(* a reply with a "[" and no "]" was answered by the catalog *)
C19_Witness ==
    /\ last.route = "api" /\ last.ai
    /\ last.class.is = "no ]"
    /\ last.path = "L1342"
    /\ Len(response.recommendations) = 5

----------------------------------------------------------------------------
(* Properties of the chat route, checked under SpecChat *)

(* the body is a dict whose 'message' is a str *)
HasMessage(body) == body.json = "dict" /\ body.message.is = "str"

(* the last min(n, Len(s)) elements of s *)
Last(s, n) == SubSeq(s, Len(s) - Min(n, Len(s)) + 1, Len(s))

(* the handler called nothing: not get_gemini_model, not the AI, not the
   fallback responder, not log_conversation *)
CalledNothing ==
    ~last.handle /\ ~last.ai /\ ~last.fallback /\ ~last.logged

(* C12: a chat request whose AI call fails, or that finds the handle failed,
   is answered with status 200 by the text of the keyword responder, which is
   not empty, with the fallback flag set. *)
C12_FailureFlagsFallback ==
    last.route = "chat" /\ last.handle /\ (last.failed \/ last.client = None) =>
        /\ response.status = 200
        /\ response.reply.by = "get_fallback_response"
        /\ response.reply.text # <<>>
        /\ response.fallback

(* C13: every chat request ends with a validation error or with a reply: no
   exception leaves chat(). *)
C13_NoEscape ==
    last.route = "chat" =>
        /\ response.error # "unhandled"
        /\ \/ response.status = 400 /\ ~response.success
           \/ response.status = 200 /\ response.reply.text # <<>>

(* C14: a message that is empty or all whitespace is answered with status 400,
   success false and the error of the empty message, and the handler calls
   nothing and leaves the history, the handle and the count of AI calls as
   they were. *)
C14_EmptyRejected ==
    /\ [](last.route = "chat" /\ HasMessage(last.body)
             /\ (\A i \in DOMAIN last.body.message.value :
                    IsSpace(last.body.message.value[i]))
          => /\ response.status = 400 /\ ~response.success
             /\ response.error = "No message provided"
             /\ response.reply.by = "chat"
             /\ CalledNothing)
    /\ [][last'.route = "chat" /\ HasMessage(last'.body)
             /\ (\A i \in DOMAIN last'.body.message.value :
                    IsSpace(last'.body.message.value[i]))
          => /\ session'.has_history = session.has_history
             /\ session'.chat_history = session.chat_history
             /\ gemini_model' = gemini_model
             /\ gemini_model_error' = gemini_model_error
             /\ aiCalls' = aiCalls]_vars

(* a message of two spaces was rejected in a session that holds a turn *)
C14_Witness ==
    /\ last.route = "chat"
    /\ last.body = JsonDict(Message(<<" ", " ">>))
    /\ response.status = 400
    /\ Len(session.chat_history) > 0

(* C15: a message of more than 500 characters after trimming is answered with
   status 400 and an error that is not the error of the empty message, and the
   handler calls nothing and leaves the history as it was; a message of 500
   characters after trimming is passed to get_gemini_response and answered
   with status 200. *)
C15_TooLongRejected ==
    /\ [](last.route = "chat" /\ HasMessage(last.body) =>
             /\ Len(Stripped[last.body.message.value]) > 500 =>
                   /\ response.status = 400 /\ ~response.success
                   /\ response.error = "Message too long"
                   /\ response.error # "No message provided"
                   /\ CalledNothing
             /\ Len(Stripped[last.body.message.value]) = 500 =>
                   /\ response.status = 200 /\ response.success
                   /\ last.handle /\ last.logged)
    /\ [][last'.route = "chat" /\ HasMessage(last'.body)
             /\ Len(Stripped[last'.body.message.value]) > 500
          => /\ session'.has_history = session.has_history
             /\ session'.chat_history = session.chat_history
             /\ aiCalls' = aiCalls]_vars

(* a message of 501 characters was rejected after a message of 500 characters
   had been answered by the AI *)
C15_Witness ==
    /\ last.route = "chat"
    /\ last.body = JsonDict(Message(Letters(501)))
    /\ response.error = "Message too long"
    /\ \E i \in DOMAIN conversation : Len(conversation[i].user) = 500

(* C16: the history of the session is never longer than 5 and is the last
   (up to 5) turns the AI answered, in their order. *)
C16_LastFiveTurns ==
    /\ Len(session.chat_history) <= 5
    /\ session.chat_history = Last(conversation, 5)

----------------------------------------------------------------------------
(* Properties of the handle under failed AI calls, checked under SpecHandle *)

(* the AI call of the request thread t runs or ran last has failed *)
AICallFailed(t) ==
    \/ pc[t] \in {"L1339", "L699"}
    \/ pc[t] = "idle" /\ outcome[t] = "fallback" /\ model_instance[t] # None

(* C20: a failed AI call leaves the handle as it was, Ready with the client
   the request obtained, and every request that obtains the handle after it
   obtains that client and goes on to its AI call. *)
C20_FailureLeavesHandle ==
    \A t \in Threads :
        AICallFailed(t) =>
            /\ gemini_model = model_instance[t]
            /\ gemini_model_error = NoError
            /\ \A u \in Threads :
                  /\ pc[u] \in {"L1283", "L603"} => model_instance[u] = gemini_model
                  /\ pc[u] \notin {"L1285", "L604"}

(* after the AI call of one request failed, another request came through the
   outer check of get_gemini_model and is about to call the AI *)
C20_Witness ==
    \E t, u \in Threads :
        /\ t # u
        /\ pc[t] = "idle" /\ outcome[t] = "fallback" /\ model_instance[t] # None
        /\ retLines[u] = "L86" /\ pc[u] \in {"L1307", "L657"}
        /\ model_instance[u] = model_instance[t]


----------------------------------------------------------------------------
(* Properties of calculate_skill_match_score, checked under SpecScore *)

(* every character of s is whitespace *)
Blank(s) == \A i \in DOMAIN s : IsSpace(s[i])

(* the user skills name no skill: a list of blank entries, or a str of
   whitespace and commas *)
NoUserSkill(arg) ==
    IF arg.isList
    THEN \A i \in DOMAIN arg.value : Blank(arg.value[i])
    ELSE \A i \in DOMAIN arg.value : IsSpace(arg.value[i]) \/ arg.value[i] = ","

(* the required skills name no skill *)
NoRequiredSkill(list) == \A i \in DOMAIN list : Blank(list[i])

(* a skill name without the blanks around it, in lower case *)
Canon(s) == [i \in DOMAIN strip(s) |-> LowerChar(strip(s)[i])]

(* the call has one required skill and a list of user skills, none blank *)
OneRequiredSkill ==
    /\ scoreCall.called
    /\ scoreCall.user_skills.isList
    /\ scoreCall.user_skills.value # <<>>
    /\ ~\E i \in DOMAIN scoreCall.user_skills.value : Blank(scoreCall.user_skills.value[i])
    /\ Len(scoreCall.required_skills) = 1
    /\ ~Blank(scoreCall.required_skills[1])

(* no bonus applies: the profile is absent or carries none of the signals *)
NoBonusApplies == scoreCall.profile = NoUser \/ scoreCall.profile = NoSignals

(* one of the two skills is a base of the synonym table and the other one of
   its variations *)
IsVariantPair(a, b) ==
    \E k \in DOMAIN skill_variations :
        \/ a = skill_variations[k][1] /\ \E v \in DOMAIN skill_variations[k][2] :
                                            b = skill_variations[k][2][v]
        \/ b = skill_variations[k][1] /\ \E v \in DOMAIN skill_variations[k][2] :
                                            a = skill_variations[k][2][v]

(* C23: with no user skill or no required skill, blank entries not counted,
   calculate_skill_match_score returns 0, whatever the other argument and the
   profile. *)
C23_EmptyMeansZero ==
    /\ scoreCall.called
    /\ \/ NoUserSkill(scoreCall.user_skills)
       \/ NoRequiredSkill(scoreCall.required_skills)
    => scoreResult = 0

(* a list of blank user skills against a required skill, with a profile that
   has all three signals, scored 0 *)
C23_Witness ==
    /\ scoreCall.called
    /\ scoreCall.user_skills = SkillList(<<<<" ", " ">>, <<" ">>>>)
    /\ scoreCall.required_skills = <<<<"P", "y", "t", "h", "o", "n">>>>
    /\ scoreCall.profile = AllSignals
    /\ scoreResult = 0

(* C24: if every required skill is, case aside, one of the user skills and no
   bonus applies, the score is 100, whatever other user skills there are. *)
C24_AllExactIsHundred ==
    /\ scoreCall.called
    /\ scoreCall.user_skills.isList
    /\ scoreCall.required_skills # <<>>
    /\ \A j \in DOMAIN scoreCall.required_skills :
          /\ ~Blank(scoreCall.required_skills[j])
          /\ \E i \in DOMAIN scoreCall.user_skills.value :
                Canon(scoreCall.user_skills.value[i]) = Canon(scoreCall.required_skills[j])
    /\ NoBonusApplies
    => scoreResult = 1000

(* three user skills, the second one " PYTHON ", against the required skills
   python and SQL scored 100 *)
C24_Witness ==
    /\ scoreCall.called
    /\ Len(scoreCall.user_skills.value) = 3
    /\ Len(scoreCall.required_skills) = 2
    /\ NoBonusApplies
    /\ scoreResult = 1000

(* C25: if the one required skill and a user skill are a base of the synonym
   table and one of its variations, either way round, the score is at least
   90. *)
C25_VariantAtLeastNinety ==
    /\ OneRequiredSkill
    /\ \E i \in DOMAIN scoreCall.user_skills.value :
          IsVariantPair(Canon(scoreCall.user_skills.value[i]),
                        Canon(scoreCall.required_skills[1]))
    => scoreResult >= 900

(* the user skill is the base JavaScript and the required skill its variation
   js, which it does not contain: the score is 95 *)
C25_Witness ==
    /\ scoreCall.called
    /\ scoreCall.user_skills = SkillList(<<<<"J", "a", "v", "a", "S", "c", "r", "i", "p", "t">>>>)
    /\ scoreCall.required_skills = <<<<"j", "s">>>>
    /\ scoreCall.profile = NoUser
    /\ scoreResult = 950

(* C26: every score is in the range 0 to 100. *)
C26_InRange == scoreCall.called => scoreResult >= 0 /\ scoreResult <= 1000

(* all three bonuses on a base percentage of 100 scored 100 *)
C26_Witness ==
    /\ scoreCall.called
    /\ scoreCall.user_skills = SkillList(<<<<"P", "y", "t", "h", "o", "n">>>>)
    /\ scoreCall.required_skills = <<<<"P", "y", "t", "h", "o", "n">>>>
    /\ scoreCall.profile = AllSignals
    /\ scoreResult = 1000

(* the weight of a user skill for a required skill, as the maximum of the four
   checks: 1.0 if they are equal, the similarity ratio if it is above 0.8, 0.9
   if one contains the other, 0.95 if they are a pair of the synonym table *)
MaxOfChecks(user_skill, req_skill) ==
    FracMax(FracMax(IF user_skill = req_skill THEN <<1, 1>> ELSE <<0, 1>>,
                    IF FracGT(ratio(user_skill, req_skill), <<8, 10>>)
                    THEN ratio(user_skill, req_skill) ELSE <<0, 1>>),
            FracMax(IF Contains(req_skill, user_skill) \/ Contains(user_skill, req_skill)
                    THEN <<9, 10>> ELSE <<0, 1>>,
                    IF IsVariantPair(user_skill, req_skill)
                    THEN <<95, 100>> ELSE <<0, 1>>))

(* the greatest of these weights over the user skills of the call *)
MaxOverUserSkills ==
    LET weights == {MaxOfChecks(Canon(scoreCall.user_skills.value[i]),
                                Canon(scoreCall.required_skills[1])) :
                       i \in DOMAIN scoreCall.user_skills.value}
    IN  CHOOSE w \in weights : \A v \in weights : ~FracGT(v, w)

(* C27: for one required skill and no bonus, the score is 100 times the
   maximum, over the user skills and the four checks, of the weights. *)
C27_MaxOverChecks ==
    OneRequiredSkill /\ NoBonusApplies =>
        scoreResult = RoundTenths(<<100 * MaxOverUserSkills[1], MaxOverUserSkills[2]>>)

(* C28: for one user skill and one required skill with a similarity ratio of
   0.8 or more, the score is at least 100 times the ratio. *)
C28_ThresholdInclusive ==
    /\ OneRequiredSkill
    /\ Len(scoreCall.user_skills.value) = 1
    /\ ~FracGT(<<8, 10>>, ratio(Canon(scoreCall.user_skills.value[1]),
                                Canon(scoreCall.required_skills[1])))
    => scoreResult >=
          RoundTenths(<<100 * ratio(Canon(scoreCall.user_skills.value[1]),
                                    Canon(scoreCall.required_skills[1]))[1],
                        ratio(Canon(scoreCall.user_skills.value[1]),
                              Canon(scoreCall.required_skills[1]))[2]>>)

(* the bonus of each profile of the model: +5 for the qualification keyword,
   +3 for the sector, +7 for the prior internship *)
ExpectedBonus ==
    IF scoreCall.profile = QualificationOnly THEN 5
    ELSE IF scoreCall.profile = InterestOnly THEN 3
    ELSE IF scoreCall.profile = PriorOnly THEN 7
    ELSE IF scoreCall.profile = AllSignals THEN 5 + 3 + 7
    ELSE 0

(* the user skills and the required skills the call compares *)
ComparedUserSkills ==
    IF scoreCall.user_skills.isList
    THEN Normalized(scoreCall.user_skills.value)
    ELSE Normalized(split(scoreCall.user_skills.value))

ComparedRequiredSkills == Normalized(scoreCall.required_skills)

(* the call has a user skill and a required skill to compare *)
HasSkills ==
    scoreCall.called /\ ComparedUserSkills # <<>> /\ ComparedRequiredSkills # <<>>

(* min(100, base percentage + bonus) as a fraction: the base percentage is 100
   times the sum of the weights over the number of required skills *)
CappedSum ==
    LET weights == MatchSum(ComparedRequiredSkills, ComparedUserSkills, 1)
        sum == FracAdd(<<100 * weights[1], weights[2] * Len(ComparedRequiredSkills)>>,
                       <<ExpectedBonus, 1>>)
    IN  IF FracGT(sum, <<100, 1>>) THEN <<100, 1>> ELSE sum

(* C29 as stated: the score is min(100, base percentage + bonus), exactly. *)
C29_ExactSum ==
    HasSkills => scoreResult * CappedSum[2] = 10 * CappedSum[1]

(* C29: the score is min(100, base percentage + bonus) rounded to one decimal,
   the bonus being the sum of +5, +3 and +7 for the signals the profile has
   and 0 without a profile. *)
C29_RoundedSum ==
    HasSkills => scoreResult = RoundTenths(CappedSum)

(* one of three required skills matched, with the bonus +7 of a prior
   internship: 33.33... + 7 is returned as 40.3 *)
C29_Witness ==
    /\ scoreCall.called
    /\ Len(scoreCall.required_skills) = 3
    /\ scoreCall.user_skills = SkillList(<<<<"P", "y", "t", "h", "o", "n">>>>)
    /\ scoreCall.profile = PriorOnly
    /\ scoreResult = 403

----------------------------------------------------------------------------
(* Properties of the order of equal scores, checked under SpecRankTies *)

(* the place of candidate i of the pool in the bucket of its type: behind the
   candidates of its type with a greater score and behind those with its score
   that come before it in the pool *)
BucketRank(i) ==
    1 + Cardinality({j \in DOMAIN pool :
                        /\ (pool[j].type = "government") = (pool[i].type = "government")
                        /\ \/ pool[j].skill_match_score > pool[i].skill_match_score
                           \/ /\ pool[j].skill_match_score = pool[i].skill_match_score
                              /\ j < i})

(* the quota assembly places candidate a of the pool before candidate b: the
   first three of the government bucket, then the private bucket, then the
   rest of the government bucket *)
PlacedBefore(a, b) ==
    IF (pool[a].type = "government") = (pool[b].type = "government")
    THEN BucketRank(a) < BucketRank(b)
    ELSE IF pool[a].type = "government" THEN BucketRank(a) <= 3
    ELSE BucketRank(b) > 3

(* C30: two candidates of the returned list with the same skill_match_score
   are in the order in which the quota assembly placed them. *)
C30_TiesKeepAssemblyOrder ==
    rankCalls > 0 =>
        \A k, l \in DOMAIN ranked :
            k < l /\ ranked[k].skill_match_score = ranked[l].skill_match_score
            => PlacedBefore(ranked[k].id, ranked[l].id)

(* five candidates of score 100 were returned: three government ones, a
   private one, and the government one that filled the list up behind it *)
C30_Witness ==
    /\ rankCalls > 0
    /\ Len(ranked) = 5
    /\ \A k \in DOMAIN ranked : ranked[k].skill_match_score = 1000
    /\ \A k \in 1..3 : ranked[k].type = "government"
    /\ ranked[4].type = "private-based"
    /\ ranked[5].type = "government"
    /\ ranked[5].id > ranked[4].id

----------------------------------------------------------------------------
(* Properties of the AI call of a request, checked under SpecHandle and
   SpecHandleFair *)

(* C21: a request calls generate_content at most once: a thread comes to a call
   only from the test of the handle it was given, each call is counted once,
   and a thread whose call failed answers with the fallback without a further
   call. *)
C21_OneCallPerRequest ==
    [][\A t \in Threads :
          pc'[t] # pc[t] =>
              /\ pc'[t] \in {"L1307", "L657"} => pc[t] \in {"L1283", "L603"}
              /\ pc'[t] \in {"L1283", "L603"} => retLines[t] = "none"
              /\ pc[t] \in {"L1307", "L657"} =>
                    /\ aiCalls' = aiCalls + 1
                    /\ pc'[t] \in {"L1326", "L1339", "L697", "L699"}
              /\ pc[t] \notin {"L1307", "L657"} => aiCalls' = aiCalls
              /\ pc[t] \in {"L1339", "L699"} =>
                    pc'[t] = "idle" /\ outcome'[t] = "fallback"]_vars

(* a chat request whose one call failed was answered by the fallback, and no
   other call was made *)
C21_Witness ==
    \E t \in Threads :
        /\ kind[t] = "chat" /\ pc[t] = "idle"
        /\ outcome[t] = "fallback" /\ model_instance[t] # None
        /\ started = 1 /\ aiCalls = 1

(* C22: every request that was taken up is answered in the end, also if the AI
   service never answers its call. *)
C22_EventuallyAnswered ==
    \A t \in Threads : (pc[t] # "idle") ~> (pc[t] = "idle")

----------------------------------------------------------------------------
(* Properties of the resolved handle and of the lock, checked under SpecHandle
   and SpecHandleFair *)

(* thread t is inside get_gemini_model *)
InGetModel(t) ==
    pc[t] \in {"L85", "L86", "L88", "L90", "L92", "L94", "L96", "L97", "L100", "L101",
               "L101r", "L106", "L106r", "L109", "L110", "L113", "L114"}

(* thread t is inside the with block of line 94 *)
InWithBlock(t) ==
    pc[t] \in {"L96", "L97", "L100", "L101", "L101r", "L106", "L106r", "L109", "L110",
               "L113"}

(* C35: a call of get_gemini_model that makes its outer check when the handle
   is resolved goes to the return of line 86 and returns there, and never
   takes or waits for the lock. *)
C35_ResolvedSkipsLock ==
    /\ [](\A t \in Threads : pc[t] = "L86" => gemini_lock # t)
    /\ [][\A t \in Threads :
             /\ pc[t] = "L85" /\ pc'[t] # "L85" /\ Resolved
                => pc'[t] = "L86" /\ gemini_lock' = gemini_lock
             /\ pc[t] = "L86" /\ pc'[t] # "L86"
                => /\ pc'[t] \in {"L1283", "L603"}
                   /\ retLines'[t] = "L86"
                   /\ model_instance'[t] = gemini_model
                   /\ gemini_lock' = gemini_lock]_vars

(* a call returned from line 86 while another thread held the lock *)
C35_Witness ==
    \E t, u \in Threads :
        /\ t # u
        /\ retLines[t] = "L86" /\ pc[t] \in {"L1283", "L603"}
        /\ gemini_lock = u

(* C36: _gemini_model and _gemini_model_error are never both set, and once a
   call of get_gemini_model has returned exactly one of them is set. *)
C36_ExactlyOneSet ==
    /\ ~(gemini_model # None /\ gemini_model_error # NoError)
    /\ returned # {} => (gemini_model # None) # (gemini_model_error # NoError)

(* the primary construction failed, the secondary one gave the client, and a
   call has returned it with no error recorded *)
C36_Witness ==
    /\ gemini_model # None /\ gemini_model.model = "gemini-pro"
    /\ gemini_model_error = NoError
    /\ gemini_model \in returned

(* C39: only a thread inside the with block holds the lock, so every way out
   of the block releases it; and with every statement of the program taken
   in time, no thread stays inside get_gemini_model for ever: every call of
   it returns. *)
C39_LockReleased ==
    /\ [](\A t \in Threads : gemini_lock = t => InWithBlock(t))
    /\ \A t \in Threads : []<>(~InGetModel(t))

(* both constructions raised, the lock is free again, and a thread that came
   through the lock after that returned from the check inside it *)
C39_Witness ==
    /\ gemini_model_error = "Gemini init failed"
    /\ gemini_lock = NoThread
    /\ \E t \in Threads : retLines[t] = "L97" /\ ~InGetModel(t)

----------------------------------------------------------------------------
(* Properties of the balanced list, checked under SpecRank *)

(* the positions of the pool the ranking returned *)
RankedIds == {ranked[k].id : k \in DOMAIN ranked}

(* C31: from a pool with at least 3 government and at least 2 private
   candidates the ranking returns exactly 5: the 3 government candidates of
   the highest scores and the 2 private candidates of the highest scores,
   whatever the scores of the private candidates it leaves out. *)
C31_ThreeAndTwo ==
    (/\ rankCalls > 0
     /\ CountGovernment(pool, TRUE) >= 3
     /\ CountGovernment(pool, FALSE) >= 2)
    => /\ Len(ranked) = 5
       /\ Cardinality(RankedIds) = 5
       /\ Cardinality({i \in RankedIds : pool[i].type = "government"}) = 3
       /\ Cardinality({i \in RankedIds : pool[i].type # "government"}) = 2
       /\ \A i \in RankedIds, j \in DOMAIN pool \ RankedIds :
             (pool[i].type = "government") = (pool[j].type = "government")
             => ExpectedScore(pool[i]) >= ExpectedScore(pool[j])

(* 3 government and 3 private candidates: the private candidate left out
   scores higher than a government candidate that was returned *)
C31_Witness ==
    /\ rankCalls > 0
    /\ CountGovernment(pool, TRUE) = 3
    /\ CountGovernment(pool, FALSE) = 3
    /\ Len(ranked) = 5
    /\ \E j \in DOMAIN pool \ RankedIds, i \in RankedIds :
          /\ pool[j].type = "private-based"
          /\ pool[i].type = "government"
          /\ ExpectedScore(pool[j]) > ExpectedScore(pool[i])

----------------------------------------------------------------------------
(* Properties of the keyword responder's turns, checked under SpecChat *)

(* C37: a chat request that the keyword responder answered, because the
   handle gave no client or the AI call failed, leaves the chat history of
   the session as it was: the session holds the same turns after it, none
   added and none dropped. *)
C37_FallbackKeepsHistory ==
    [][(/\ started' # started
        /\ last'.route = "chat"
        /\ last'.fallback
        /\ response'.reply = KeywordReply)
       => /\ session'.has_history = session.has_history
          /\ session'.chat_history = session.chat_history
          /\ conversation' = conversation]_vars

(* the keyword responder answered a request whose AI call failed, in a
   session that holds a turn the AI answered before *)
C37_Witness ==
    /\ last.route = "chat" /\ last.fallback /\ last.ai /\ last.failed
    /\ response.reply = KeywordReply
    /\ Len(session.chat_history) > 0
    /\ session.chat_history = conversation

----------------------------------------------------------------------------
(* Properties of the ranking of AI-sourced lists, checked under
   SpecRankListed *)

(* the candidate is of type government, exactly so written *)
IsGovernment(rec) == "type" \in DOMAIN rec /\ rec.type = "government"

(* C38: ranking the list a ranking returned gives that list again: the same
   candidates in the same order with the same scores, no score boosted a
   second time, and the scores in the pool's dicts as they were. *)
C38_RerankingChangesNothing ==
    /\ [](reranked => ranked = prevRanked)
    /\ [][SortSortedRecommendations => ranked' = ranked /\ pool' = pool]_vars

(* a result of 5 with government candidates whose boosted score is below the
   cap and with candidates of equal scores was ranked again *)
C38_Witness ==
    /\ reranked
    /\ Len(ranked) = 5
    /\ \E k \in DOMAIN ranked :
          /\ IsGovernment(pool[ranked[k].id])
          /\ ranked[k].skill_match_score < 1000
          /\ ranked[k].skill_match_score > 100
    /\ \E k \in 1..4 : ranked[k].skill_match_score = ranked[k + 1].skill_match_score

(* C40: a candidate whose type is not exactly 'government' (it has none, or
   one written with another case, or any other) gets its score without the
   boost, and the result holds at most 3 such candidates, those of the
   highest scores among them. *)
C40_OtherTypesArePrivate ==
    rankCalls > 0 =>
        /\ \A i \in DOMAIN pool :
              ~IsGovernment(pool[i])
              => pool[i].skill_match_score = ScoreTable[user][pool[i].skills]
        /\ \A k \in DOMAIN ranked :
              ~IsGovernment(pool[ranked[k].id])
              => ranked[k].skill_match_score = ScoreTable[user][pool[ranked[k].id].skills]
        /\ Cardinality({i \in RankedIds : ~IsGovernment(pool[i])}) <= 3
        /\ \A i \in RankedIds, j \in DOMAIN pool \ RankedIds :
              ~IsGovernment(pool[i]) /\ ~IsGovernment(pool[j])
              => pool[i].skill_match_score >= pool[j].skill_match_score

(* of 4 candidates that are not of type government, with one without a type
   and one of type 'Government' among them, 3 were returned, the one of type
   'Government' with its score below that of the government candidate of the
   same skills *)
C40_Witness ==
    /\ rankCalls > 0
    /\ Cardinality({i \in DOMAIN pool : ~IsGovernment(pool[i])}) = 4
    /\ Cardinality({i \in RankedIds : ~IsGovernment(pool[i])}) = 3
    /\ \E i \in RankedIds : "type" \notin DOMAIN pool[i]
    /\ \E i, j \in RankedIds :
          /\ "type" \in DOMAIN pool[i] /\ pool[i].type = "Government"
          /\ IsGovernment(pool[j])
          /\ pool[i].skills = pool[j].skills
          /\ pool[i].skill_match_score + 100 = pool[j].skill_match_score

----------------------------------------------------------------------------
(* Properties of the conversation context, checked under SpecContext *)

(* C32: the context of an empty history is the first-interaction text; the
   context of any other history holds its last turns, at most 3, numbered
   from 1 in the order of the history, each with the message as it was sent
   and with the first 150 characters of the reply, the whole reply if it is
   shorter. *)
C32_LastThreeTurnsCut ==
    context.is # "none" =>
        IF Len(contextHistory) = 0
        THEN context.is = "first" /\ context.turns = <<>>
        ELSE /\ context.is = "history"
             /\ Len(context.turns) <= 3
             /\ Len(context.turns) = (IF Len(contextHistory) < 3 THEN Len(contextHistory) ELSE 3)
             /\ \A k \in DOMAIN context.turns :
                   LET turn == contextHistory[Len(contextHistory) - Len(context.turns) + k]
                       shown == context.turns[k]
                   IN  /\ shown.n = k
                       /\ shown.user = turn.user
                       /\ Len(shown.bot) <= 150
                       /\ Len(shown.bot) = (IF Len(turn.bot) < 150 THEN Len(turn.bot) ELSE 150)
                       /\ \A c \in DOMAIN shown.bot : shown.bot[c] = turn.bot[c]

(* a history of 4 turns whose first turn differs from its second and whose
   last reply has 151 characters: the context holds 3 turns, the last one
   with 150 characters of its reply *)
C32_Witness ==
    /\ context.is = "history"
    /\ Len(contextHistory) = 4
    /\ contextHistory[1] # contextHistory[2]
    /\ Len(contextHistory[4].bot) = 151
    /\ Len(context.turns) = 3
    /\ Len(context.turns[3].bot) = 150
    /\ context.turns[1].user = contextHistory[2].user

----------------------------------------------------------------------------
(* Properties of the keyword responder, checked under SpecFallback *)

(* the first category of the ordered list greeting, application, eligibility,
   benefits, documents, support with a keyword in the message, and the
   generic template if there is none *)
FirstCategory(message) ==
    LET text == [i \in DOMAIN message |-> LowerChar(message[i])]
        has(c) == \E w \in DOMAIN CategoryKeywords[c].words :
                      Contains(CategoryKeywords[c].words[w], text)
    IN  IF \E c \in DOMAIN CategoryKeywords : has(c)
        THEN CategoryKeywords[CHOOSE c \in DOMAIN CategoryKeywords :
                                 has(c) /\ \A e \in 1..(c - 1) : ~has(e)].template
        ELSE "generic"

(* C33: the reply to a message is made from the template of the first
   category, in the order greeting, application, eligibility, benefits,
   documents, support, that has a keyword in the message, and from the generic
   template if no category has one. *)
C33_FirstCategoryWins ==
    fallbackCall.called => fallbackReply.template = FirstCategory(fallbackCall.message)

(* C34: a call of get_fallback_response with the message, the name and the
   profile status of the call before it returns the reply that call
   returned. *)
C34_SameCallSameReply ==
    (fallbackCall.called /\ fallbackPrevious.call = fallbackCall)
    => fallbackReply = fallbackPrevious.reply

====
